---- MODULE Spec2Model ----
(***************************************************************************)
(* Model of the keystroke pipeline of georgik/esp32-s3-ssh-keyboard.      *)
(*                                                                         *)
(* The repository holds five firmware variants (one C file each).  Every   *)
(* variant turns bytes read from a feed (UART, SSH channel, built-in       *)
(* texts) into USB HID keyboard reports: a "press" report followed by an   *)
(* "all released" report.  The model keeps the variants apart by the       *)
(* variable prog and models, per variant, the keycode table, send_key,     *)
(* send_keycode and the per-byte body of every loop that feeds them.       *)
(*                                                                         *)
(* Bytes are ASCII codes (integers), keycodes are the TinyUSB HID usage    *)
(* ids, so that the arithmetic of char_to_hid_keycode is the code's.       *)
(***************************************************************************)
EXTENDS Integers, Sequences, FiniteSets, TLC

(***************************************************************************)
(* Character literals used by the sources.                                 *)
(***************************************************************************)
CH_NUL == 0
CH_BS == 8
CH_TAB == 9
CH_LF == 10
CH_CR == 13
CH_ESC == 27
CH_SPACE == 32
CH_EXCL == 33
CH_DQUOTE == 34
CH_HASH == 35
CH_DOLLAR == 36
CH_PERCENT == 37
CH_AMP == 38
CH_APOS == 39
CH_LPAREN == 40
CH_RPAREN == 41
CH_STAR == 42
CH_PLUS == 43
CH_COMMA == 44
CH_MINUS == 45
CH_PERIOD == 46
CH_SLASH == 47
CH_0 == 48
CH_1 == 49
CH_2 == 50
CH_3 == 51
CH_4 == 52
CH_5 == 53
CH_6 == 54
CH_7 == 55
CH_8 == 56
CH_9 == 57
CH_COLON == 58
CH_SEMI == 59
CH_LT == 60
CH_EQUAL == 61
CH_GT == 62
CH_QUESTION == 63
CH_AT == 64
CH_A == 65
CH_B == 66
CH_C == 67
CH_D == 68
CH_F == 70
CH_H == 72
CH_Z == 90
CH_LBRACKET == 91
CH_BACKSLASH == 92
CH_RBRACKET == 93
CH_CARET == 94
CH_UNDERSCORE == 95
CH_GRAVE == 96
CH_a == 97
CH_i == 105
CH_z == 122
CH_LBRACE == 123
CH_PIPE == 124
CH_RBRACE == 125
CH_TILDE == 126
CH_DEL == 127

(***************************************************************************)
(* TinyUSB HID usage ids and the modifier bit the sources name.            *)
(***************************************************************************)
HID_KEY_A == 4
HID_KEY_1 == 30
HID_KEY_2 == 31
HID_KEY_3 == 32
HID_KEY_4 == 33
HID_KEY_5 == 34
HID_KEY_6 == 35
HID_KEY_7 == 36
HID_KEY_8 == 37
HID_KEY_9 == 38
HID_KEY_0 == 39
HID_KEY_ENTER == 40
HID_KEY_BACKSPACE == 42
HID_KEY_TAB == 43
HID_KEY_SPACE == 44
HID_KEY_MINUS == 45
HID_KEY_EQUAL == 46
HID_KEY_BRACKET_LEFT == 47
HID_KEY_BRACKET_RIGHT == 48
HID_KEY_BACKSLASH == 49
HID_KEY_SEMICOLON == 51
HID_KEY_APOSTROPHE == 52
HID_KEY_GRAVE == 53
HID_KEY_COMMA == 54
HID_KEY_PERIOD == 55
HID_KEY_SLASH == 56
HID_KEY_INSERT == 73
HID_KEY_HOME == 74
HID_KEY_PAGE_UP == 75
HID_KEY_DELETE == 76
HID_KEY_END == 77
HID_KEY_PAGE_DOWN == 78
HID_KEY_ARROW_RIGHT == 79
HID_KEY_ARROW_LEFT == 80
HID_KEY_ARROW_DOWN == 81
HID_KEY_ARROW_UP == 82
KEYBOARD_MODIFIER_LEFTSHIFT == 2

(***************************************************************************)
(* sizeof(escape_seq_buf) and the length at which the UART loops give up   *)
(* on a sequence.                                                          *)
(***************************************************************************)
ESCAPE_SEQ_BUF_SIZE == 8
ESCAPE_SEQ_GIVE_UP == 7
SSH_MAX_CLIENTS == 3

(***************************************************************************)
(* Frames as the sink sees them: one per tud_hid_keyboard_report call.     *)
(***************************************************************************)
PressFrame(modifier, keycode) ==
    [kind |-> "press", modifier |-> modifier, keycode |-> keycode]

ReleaseFrame == [kind |-> "release", modifier |-> 0, keycode |-> 0]

(***************************************************************************)
(* char_to_hid_keycode: the same table in all five files.                  *)
(***************************************************************************)
char_to_hid_keycode_punct(c) ==
    CASE c = CH_SPACE -> HID_KEY_SPACE
      [] c = CH_CR -> HID_KEY_ENTER
      [] c = CH_LF -> HID_KEY_ENTER
      [] c = CH_TAB -> HID_KEY_TAB
      [] c = CH_BS -> HID_KEY_BACKSPACE
      [] c = CH_DEL -> HID_KEY_BACKSPACE
      [] c = CH_ESC -> 0
      [] c = CH_EXCL -> HID_KEY_1
      [] c = CH_AT -> HID_KEY_2
      [] c = CH_HASH -> HID_KEY_3
      [] c = CH_DOLLAR -> HID_KEY_4
      [] c = CH_PERCENT -> HID_KEY_5
      [] c = CH_CARET -> HID_KEY_6
      [] c = CH_AMP -> HID_KEY_7
      [] c = CH_STAR -> HID_KEY_8
      [] c = CH_LPAREN -> HID_KEY_9
      [] c = CH_RPAREN -> HID_KEY_0
      [] c = CH_MINUS -> HID_KEY_MINUS
      [] c = CH_EQUAL -> HID_KEY_EQUAL
      [] c = CH_LBRACKET -> HID_KEY_BRACKET_LEFT
      [] c = CH_RBRACKET -> HID_KEY_BRACKET_RIGHT
      [] c = CH_BACKSLASH -> HID_KEY_BACKSLASH
      [] c = CH_SEMI -> HID_KEY_SEMICOLON
      [] c = CH_APOS -> HID_KEY_APOSTROPHE
      [] c = CH_GRAVE -> HID_KEY_GRAVE
      [] c = CH_COMMA -> HID_KEY_COMMA
      [] c = CH_PERIOD -> HID_KEY_PERIOD
      [] c = CH_SLASH -> HID_KEY_SLASH
      [] OTHER -> 0

char_to_hid_keycode(c) ==
    IF c >= CH_a /\ c <= CH_z THEN HID_KEY_A + (c - CH_a)
    ELSE IF c >= CH_A /\ c <= CH_Z THEN HID_KEY_A + (c - CH_A)
    ELSE IF c >= CH_1 /\ c <= CH_9 THEN HID_KEY_1 + (c - CH_1)
    ELSE IF c = CH_0 THEN HID_KEY_0
    ELSE char_to_hid_keycode_punct(c)

(***************************************************************************)
(* char_needs_shift exists in esp32-wifi-keyboard.c only.                  *)
(***************************************************************************)
ShiftedSymbols ==
    {CH_EXCL, CH_AT, CH_HASH, CH_DOLLAR, CH_PERCENT, CH_CARET, CH_AMP, CH_STAR,
     CH_LPAREN, CH_RPAREN, CH_UNDERSCORE, CH_PLUS, CH_LBRACE, CH_RBRACE,
     CH_PIPE, CH_COLON, CH_DQUOTE, CH_LT, CH_GT, CH_QUESTION}

char_needs_shift(c) ==
    IF c >= CH_A /\ c <= CH_Z THEN TRUE
    ELSE IF c >= CH_1 /\ c <= CH_9 THEN FALSE
    ELSE c \in ShiftedSymbols

(***************************************************************************)
(* The other four files test the letter range inline in send_key.          *)
(***************************************************************************)
is_upper(c) == c >= CH_A /\ c <= CH_Z

is_escape_start(c) == c = CH_ESC

(***************************************************************************)
(* process_escape_sequence (esp32-wifi-keyboard.c).  seq is the escape     *)
(* buffer, a function on 0..7; len is escape_seq_idx.                      *)
(***************************************************************************)
escape_final_switch(c) ==
    CASE c = CH_A -> HID_KEY_ARROW_UP
      [] c = CH_B -> HID_KEY_ARROW_DOWN
      [] c = CH_C -> HID_KEY_ARROW_RIGHT
      [] c = CH_D -> HID_KEY_ARROW_LEFT
      [] c = CH_H -> HID_KEY_HOME
      [] c = CH_F -> HID_KEY_END
      [] OTHER -> 0

escape_tilde_switch(c) ==
    CASE c = CH_1 -> HID_KEY_HOME
      [] c = CH_2 -> HID_KEY_INSERT
      [] c = CH_3 -> HID_KEY_DELETE
      [] c = CH_4 -> HID_KEY_END
      [] c = CH_5 -> HID_KEY_PAGE_UP
      [] c = CH_6 -> HID_KEY_PAGE_DOWN
      [] OTHER -> 0

escape_extended_switch(seq) ==
    CASE seq[3] = CH_TILDE -> escape_tilde_switch(seq[2])
      [] seq[3] = CH_7 -> HID_KEY_HOME
      [] seq[3] = CH_8 -> HID_KEY_END
      [] OTHER -> 0

process_escape_sequence(seq, len) ==
    IF len >= 3 /\ seq[0] = CH_ESC /\ seq[1] = CH_LBRACKET
    THEN IF escape_final_switch(seq[2]) # 0 THEN escape_final_switch(seq[2])
         ELSE IF len >= 4 THEN escape_extended_switch(seq)
         ELSE 0
    ELSE 0

(***************************************************************************)
(* send_keycode: identical in the five files.  mounted is the value        *)
(* tud_mounted() returns; the result is the frames handed to the sink.     *)
(* send_keycode_unguarded is the function without its tud_mounted() test,  *)
(* the variant C11_UnreadySink has to tell apart.                          *)
(***************************************************************************)
send_keycode_unguarded(mounted, keycode) ==
    <<PressFrame(0, keycode), ReleaseFrame>>

send_keycode(mounted, keycode) ==
    IF mounted THEN <<PressFrame(0, keycode), ReleaseFrame>> ELSE <<>>

(***************************************************************************)
(* send_key, per file.  prev is the function's static prev_char; the       *)
(* result holds its new value and the frames sent.                         *)
(***************************************************************************)
ExtendedDigits == {CH_1, CH_2, CH_3, CH_4, CH_5, CH_6}

bracket_replay(prev) ==
    IF prev = CH_LBRACKET
    THEN <<PressFrame(0, char_to_hid_keycode(CH_LBRACKET)), ReleaseFrame>>
    ELSE <<>>

send_key_regular_stuck(prev, c, modifier) ==
    IF c = CH_LBRACKET
    THEN [prev_char |-> c, frames |-> bracket_replay(prev)]
    ELSE [prev_char |-> IF prev = CH_LBRACKET THEN 0 ELSE prev,
          frames |-> bracket_replay(prev)
                     \o <<PressFrame(modifier, char_to_hid_keycode(c))>>]

send_key_regular(prev, c, modifier) ==
    IF c = CH_LBRACKET
    THEN [prev_char |-> c, frames |-> bracket_replay(prev)]
    ELSE [prev_char |-> IF prev = CH_LBRACKET THEN 0 ELSE prev,
          frames |-> bracket_replay(prev)
                     \o <<PressFrame(modifier, char_to_hid_keycode(c)), ReleaseFrame>>]

send_key_esp32(prev, c, mounted) ==
    IF ~mounted THEN [prev_char |-> prev, frames |-> <<>>]
    ELSE IF prev = CH_LBRACKET /\ escape_final_switch(c) = 0 /\ c \in ExtendedDigits
    THEN [prev_char |-> 0, frames |-> <<>>]
    ELSE IF prev = CH_LBRACKET /\ escape_final_switch(c) # 0
    THEN [prev_char |-> 0, frames |-> send_keycode(mounted, escape_final_switch(c))]
    ELSE send_key_regular(prev, c,
             IF char_needs_shift(c) THEN KEYBOARD_MODIFIER_LEFTSHIFT ELSE 0)

send_key_ssh(prev, c, mounted) ==
    IF ~mounted THEN [prev_char |-> prev, frames |-> <<>>]
    ELSE IF prev = CH_LBRACKET /\ escape_final_switch(c) # 0
    THEN [prev_char |-> 0, frames |-> send_keycode(mounted, escape_final_switch(c))]
    ELSE send_key_regular(prev, c,
             IF is_upper(c) THEN KEYBOARD_MODIFIER_LEFTSHIFT ELSE 0)

send_key_simple(prev, c, mounted) ==
    IF ~mounted THEN [prev_char |-> prev, frames |-> <<>>]
    ELSE IF prev = CH_LBRACKET /\ escape_final_switch(c) # 0
    THEN [prev_char |-> 0, frames |-> send_keycode(mounted, escape_final_switch(c))]
    ELSE send_key_regular(prev, c,
             IF is_upper(c) THEN KEYBOARD_MODIFIER_LEFTSHIFT ELSE 0)

send_key_prov(prev, c, mounted) ==
    IF ~mounted THEN [prev_char |-> prev, frames |-> <<>>]
    ELSE [prev_char |-> prev,
          frames |-> <<PressFrame(IF is_upper(c) THEN KEYBOARD_MODIFIER_LEFTSHIFT ELSE 0,
                                  char_to_hid_keycode(c)), ReleaseFrame>>]

send_key_wprov(prev, c, mounted) ==
    IF ~mounted THEN [prev_char |-> prev, frames |-> <<>>]
    ELSE [prev_char |-> prev,
          frames |-> <<PressFrame(IF is_upper(c) THEN KEYBOARD_MODIFIER_LEFTSHIFT ELSE 0,
                                  char_to_hid_keycode(c)), ReleaseFrame>>]

(***************************************************************************)
(* The escape buffer: char escape_seq_buf[8], zero-initialised, cleared    *)
(* by memset.  A store at an index outside 0..7 does not land in the       *)
(* array: buffer_store leaves the array alone and out_of_bounds reports    *)
(* it.                                                                     *)
(***************************************************************************)
BufIndex == 0 .. (ESCAPE_SEQ_BUF_SIZE - 1)

ZeroBuf == [i \in BufIndex |-> 0]

out_of_bounds(idx) == idx >= ESCAPE_SEQ_BUF_SIZE

buffer_store(buf, idx, c) ==
    IF idx \in BufIndex THEN [buf EXCEPT ![idx] = c] ELSE buf

(***************************************************************************)
(* One iteration of the byte loop of uart_event_task,                      *)
(* esp32-wifi-keyboard.c.  The result is the decoder state after the byte  *)
(* and the frames sent while processing it.                                *)
(***************************************************************************)
uart_byte_esp32_collect(idx, buf, prev, c, mounted) ==
    LET buf2 == buffer_store(buf, idx, c)
        idx2 == idx + 1
        keycode == process_escape_sequence(buf2, idx2)
    IN  IF idx2 >= 2 /\ keycode # 0
        THEN [idx |-> 0, buf |-> ZeroBuf, prev_char |-> prev,
              frames |-> send_keycode(mounted, keycode), oob |-> out_of_bounds(idx)]
        ELSE IF idx2 >= 2 /\ idx2 >= ESCAPE_SEQ_GIVE_UP
        THEN [idx |-> 0, buf |-> ZeroBuf, prev_char |-> prev,
              frames |-> <<>>, oob |-> out_of_bounds(idx)]
        ELSE [idx |-> idx2, buf |-> buf2, prev_char |-> prev,
              frames |-> <<>>, oob |-> out_of_bounds(idx)]

uart_byte_esp32_nul(idx, buf, prev, c, mounted) ==
    IF is_escape_start(c)
    THEN [idx |-> 1, buf |-> buffer_store(buf, 0, c), prev_char |-> prev,
          frames |-> <<>>, oob |-> FALSE]
    ELSE IF idx > 0
    THEN uart_byte_esp32_collect(idx, buf, prev, c, mounted)
    ELSE LET r == send_key_esp32(prev, c, mounted)
         IN  [idx |-> idx, buf |-> buf, prev_char |-> r.prev_char,
              frames |-> r.frames, oob |-> FALSE]

uart_byte_esp32(idx, buf, prev, c, mounted) ==
    IF c = CH_NUL
    THEN [idx |-> idx, buf |-> buf, prev_char |-> prev, frames |-> <<>>, oob |-> FALSE]
    ELSE IF is_escape_start(c)
    THEN [idx |-> 1, buf |-> buffer_store(buf, 0, c), prev_char |-> prev,
          frames |-> <<>>, oob |-> FALSE]
    ELSE IF idx > 0
    THEN uart_byte_esp32_collect(idx, buf, prev, c, mounted)
    ELSE LET r == send_key_esp32(prev, c, mounted)
         IN  [idx |-> idx, buf |-> buf, prev_char |-> r.prev_char,
              frames |-> r.frames, oob |-> FALSE]

(***************************************************************************)
(* One iteration of the byte loop of uart_event_task, ssh-keyboard.c.      *)
(* The inline switch reads escape_seq_buf[2] as soon as two bytes are      *)
(* buffered.  ssh_arrow_switch_swapped is the switch with the cases 'C'    *)
(* and 'D' exchanged, the variant C5_ArrowSequence has to tell apart.      *)
(***************************************************************************)
ssh_arrow_switch_swapped(c) ==
    CASE c = CH_A -> HID_KEY_ARROW_UP
      [] c = CH_B -> HID_KEY_ARROW_DOWN
      [] c = CH_C -> HID_KEY_ARROW_LEFT
      [] c = CH_D -> HID_KEY_ARROW_RIGHT
      [] OTHER -> 0

ssh_arrow_switch(c) ==
    CASE c = CH_A -> HID_KEY_ARROW_UP
      [] c = CH_B -> HID_KEY_ARROW_DOWN
      [] c = CH_C -> HID_KEY_ARROW_RIGHT
      [] c = CH_D -> HID_KEY_ARROW_LEFT
      [] OTHER -> 0

uart_byte_ssh_collect(idx, buf, prev, c, mounted) ==
    LET buf2 == buffer_store(buf, idx, c)
        idx2 == idx + 1
        keycode == IF buf2[0] = CH_ESC /\ buf2[1] = CH_LBRACKET
                   THEN ssh_arrow_switch(buf2[2]) ELSE 0
    IN  IF idx2 >= 2 /\ keycode # 0
        THEN [idx |-> 0, buf |-> ZeroBuf, prev_char |-> prev,
              frames |-> send_keycode(mounted, keycode), oob |-> out_of_bounds(idx)]
        ELSE IF idx2 >= 2 /\ idx2 >= ESCAPE_SEQ_GIVE_UP
        THEN [idx |-> 0, buf |-> ZeroBuf, prev_char |-> prev,
              frames |-> <<>>, oob |-> out_of_bounds(idx)]
        ELSE [idx |-> idx2, buf |-> buf2, prev_char |-> prev,
              frames |-> <<>>, oob |-> out_of_bounds(idx)]

uart_byte_ssh(idx, buf, prev, c, mounted) ==
    IF c = CH_NUL
    THEN [idx |-> idx, buf |-> buf, prev_char |-> prev, frames |-> <<>>, oob |-> FALSE]
    ELSE IF c = CH_ESC
    THEN [idx |-> 1, buf |-> buffer_store(buf, 0, c), prev_char |-> prev,
          frames |-> <<>>, oob |-> FALSE]
    ELSE IF idx > 0
    THEN uart_byte_ssh_collect(idx, buf, prev, c, mounted)
    ELSE LET r == send_key_ssh(prev, c, mounted)
         IN  [idx |-> idx, buf |-> buf, prev_char |-> r.prev_char,
              frames |-> r.frames, oob |-> FALSE]

(***************************************************************************)
(* One iteration of the byte loop of channel_data_callback,                *)
(* ssh-keyboard.c.  It shares escape_seq_buf, escape_seq_idx and           *)
(* send_key's prev_char with the UART loop of the same file.               *)
(***************************************************************************)
channel_data_collect(idx, buf, prev, c, mounted) ==
    LET buf2 == buffer_store(buf, idx, c)
        idx2 == idx + 1
    IN  IF idx2 >= 3 /\ buf2[0] = CH_ESC /\ buf2[1] = CH_LBRACKET
        THEN IF ssh_arrow_switch(buf2[2]) # 0
             THEN [idx |-> 0, buf |-> ZeroBuf, prev_char |-> prev,
                   frames |-> send_keycode(mounted, ssh_arrow_switch(buf2[2])),
                   oob |-> out_of_bounds(idx)]
             ELSE LET r == send_key_ssh(prev, c, mounted)
                  IN  [idx |-> 0, buf |-> ZeroBuf, prev_char |-> r.prev_char,
                       frames |-> r.frames, oob |-> out_of_bounds(idx)]
        ELSE [idx |-> idx2, buf |-> buf2, prev_char |-> prev,
              frames |-> <<>>, oob |-> out_of_bounds(idx)]

channel_data_byte(idx, buf, prev, c, mounted) ==
    IF c = CH_NUL
    THEN [idx |-> idx, buf |-> buf, prev_char |-> prev, frames |-> <<>>, oob |-> FALSE]
    ELSE IF c = CH_ESC
    THEN [idx |-> 1, buf |-> buffer_store(buf, 0, c), prev_char |-> prev,
          frames |-> <<>>, oob |-> FALSE]
    ELSE IF idx > 0
    THEN channel_data_collect(idx, buf, prev, c, mounted)
    ELSE LET r == send_key_ssh(prev, c, mounted)
         IN  [idx |-> idx, buf |-> buf, prev_char |-> r.prev_char,
              frames |-> r.frames, oob |-> FALSE]

(***************************************************************************)
(* The byte loops that only skip NUL and call send_key:                    *)
(* uart_event_task of ssh-keyboard-simple.c, provisioned-keyboard.c and    *)
(* wifi-prov-keyboard.c, and ssh_keyboard_task of provisioned-keyboard.c.  *)
(* These files have no escape buffer; idx and buf pass through.            *)
(***************************************************************************)
uart_byte_simple(idx, buf, prev, c, mounted) ==
    IF c # CH_NUL
    THEN LET r == send_key_simple(prev, c, mounted)
         IN  [idx |-> idx, buf |-> buf, prev_char |-> r.prev_char,
              frames |-> r.frames, oob |-> FALSE]
    ELSE [idx |-> idx, buf |-> buf, prev_char |-> prev, frames |-> <<>>, oob |-> FALSE]

uart_byte_prov(idx, buf, prev, c, mounted) ==
    IF c # CH_NUL
    THEN LET r == send_key_prov(prev, c, mounted)
         IN  [idx |-> idx, buf |-> buf, prev_char |-> r.prev_char,
              frames |-> r.frames, oob |-> FALSE]
    ELSE [idx |-> idx, buf |-> buf, prev_char |-> prev, frames |-> <<>>, oob |-> FALSE]

ssh_keyboard_byte_prov(idx, buf, prev, c, mounted) ==
    IF c # CH_NUL
    THEN LET r == send_key_prov(prev, c, mounted)
         IN  [idx |-> idx, buf |-> buf, prev_char |-> r.prev_char,
              frames |-> r.frames, oob |-> FALSE]
    ELSE [idx |-> idx, buf |-> buf, prev_char |-> prev, frames |-> <<>>, oob |-> FALSE]

uart_byte_wprov(idx, buf, prev, c, mounted) ==
    IF c # CH_NUL
    THEN LET r == send_key_wprov(prev, c, mounted)
         IN  [idx |-> idx, buf |-> buf, prev_char |-> r.prev_char,
              frames |-> r.frames, oob |-> FALSE]
    ELSE [idx |-> idx, buf |-> buf, prev_char |-> prev, frames |-> <<>>, oob |-> FALSE]

(***************************************************************************)
(* simulated_ssh_task (ssh-keyboard-simple.c) passes each character of     *)
(* its demo text to send_key; the text, as character codes:                *)
(*   "Hello from SSH!\n" "This is a demo.\n" "Use UART or SSH.\n"          *)
(***************************************************************************)
demo_text ==
    <<72, 101, 108, 108, 111, 32, 102, 114, 111, 109, 32, 83, 83, 72, 33,
      10, 84, 104, 105, 115, 32, 105, 115, 32, 97, 32, 100, 101, 109, 111,
      46, 10, 85, 115, 101, 32, 85, 65, 82, 84, 32, 111, 114, 32, 83, 83,
      72, 46, 10>>

simulated_ssh_byte(idx, buf, prev, c, mounted) ==
    LET r == send_key_simple(prev, c, mounted)
    IN  [idx |-> idx, buf |-> buf, prev_char |-> r.prev_char,
         frames |-> r.frames, oob |-> FALSE]

(***************************************************************************)
(* The texts provisioned-keyboard.c types by itself.                       *)
(*   success_msg   "WiFi Provisioning Successful!\n"   (wifi_provisioning)  *)
(*   ip_str        "ESP32-S3 IP: " IPSTR "\n"          (wifi_event_handler) *)
(* IPSTR is "%d.%d.%d.%d"; decimal(n) is what %d prints for n in 0..255.   *)
(***************************************************************************)
success_msg ==
    <<87, 105, 70, 105, 32, 80, 114, 111, 118, 105, 115, 105, 111, 110,
      105, 110, 103, 32, 83, 117, 99, 99, 101, 115, 115, 102, 117, 108, 33,
      10>>

ip_str_prefix ==
    <<69, 83, 80, 51, 50, 45, 83, 51, 32, 73, 80, 58, 32>>

RECURSIVE decimal(_)
decimal(n) ==
    IF n < 10 THEN <<CH_0 + n>> ELSE decimal(n \div 10) \o <<CH_0 + (n % 10)>>

format_ip_str(ip) ==
    ip_str_prefix \o decimal(ip[1]) \o <<CH_PERIOD>> \o decimal(ip[2])
    \o <<CH_PERIOD>> \o decimal(ip[3]) \o <<CH_PERIOD>> \o decimal(ip[4]) \o <<CH_LF>>

(***************************************************************************)
(* State.                                                                  *)
(*   prog             which of the five firmware files runs                *)
(*   source           the feed that delivers the bytes of this run         *)
(*   tud_mounted      what tud_mounted() returns                           *)
(*   escape_seq_buf, escape_seq_idx   the file-scope escape buffer         *)
(*   prev_char        send_key's static prev_char                          *)
(*   ub               a store outside escape_seq_buf has happened          *)
(*   hist             one record per byte consumed: the byte, whether      *)
(*                    escape_seq_idx was 0 before it, prev_char before     *)
(*                    it, the frames sent while it was processed, the feed *)
(*                    it came from (src) and, for the SSH feed, the        *)
(*                    session                                              *)
(*   collect_run      number of bytes consumed in a row, up to now, that   *)
(*                    left escape_seq_idx > 0 without an assignment of 0   *)
(*   sink             the frames the USB HID sink has received, each       *)
(*                    tagged with the task that called                     *)
(*                    tud_hid_keyboard_report, the character and its       *)
(*                    number, and what the report call returned (ok)       *)
(*   task_state       per emitting task: where it is blocked (stage), the  *)
(*                    frames its current send_key call still has to send   *)
(*                    (todo), the value that call writes to prev_char      *)
(*                    after a replayed '[' (then), the character of that   *)
(*                    call (c) and its number among the task's             *)
(*                    characters (n)                                       *)
(*   pos              per emitting task: characters taken so far           *)
(*   wifi_event_group the bits set in the event group                      *)
(*   ip_str           the text wifi_event_handler formatted                *)
(*   ssh_session      the SSH session whose channel delivers bytes, by     *)
(*                    order of acceptance                                  *)
(*   ssh_sessions     ssh-keyboard.c's array of session slots: "NULL", or  *)
(*                    a session object whose client is connected ("open")  *)
(*                    or has gone away ("closed")                          *)
(*   server           provisioned-keyboard.c's ssh_server_task: where it   *)
(*                    is in its loop and in handle_ssh_session (pc), the   *)
(*                    locals auth_success, channel and keyboard_task, and  *)
(*                    what has happened to the connection so far           *)
(*   ssh_channels     ssh-keyboard.c's array of channels, NULL or a        *)
(*                    channel, slot by slot                                *)
(*   slot             ssh-keyboard.c's ssh_server_task: the loop index i,  *)
(*                    the call it is at (pc), the session and channel      *)
(*                    objects allocated and not freed, and the call that   *)
(*                    failed last                                          *)
(*   uart             the UART driver of esp32-wifi-keyboard.c and         *)
(*                    ssh-keyboard.c: the bytes in its receive buffer      *)
(*                    (rx), the events in uart0_queue, the number of bytes *)
(*                    received so far, and Len(hist) at each overflow      *)
(*                    event uart_event_task has handled (flushed)          *)
(***************************************************************************)
VARIABLES prog, source, tud_mounted, escape_seq_buf, escape_seq_idx, prev_char,
          ub, hist, collect_run, sink, task_state, pos, wifi_event_group, ip_str,
          ssh_session, ssh_sessions, server, uart, ssh_channels, slot

vars == <<prog, source, tud_mounted, escape_seq_buf, escape_seq_idx, prev_char,
          ub, hist, collect_run, sink, task_state, pos, wifi_event_group, ip_str,
          ssh_session, ssh_sessions, server, uart, ssh_channels, slot>>

slotVars == <<ssh_channels, slot>>

serverVars == <<ssh_sessions, server, uart, slotVars>>

taskVars == <<sink, task_state, pos, wifi_event_group, ip_str>>

(***************************************************************************)
(* Bounds of the byte-level specifications.                                *)
(***************************************************************************)
MaxFeed == 4
MaxLong == 9

Alphabet ==
    {CH_ESC, CH_LBRACKET, CH_A, CH_B, CH_C, CH_D, CH_H, CH_F, CH_3, CH_TILDE,
     CH_a, CH_i, CH_EXCL}

LongAlphabet == {CH_ESC, CH_LBRACKET, CH_a}

Programs == {"esp32", "ssh", "simple", "prov", "wprov"}

Sources(p) ==
    CASE p = "esp32" -> {"uart"}
      [] p = "ssh" -> {"uart", "ssh"}
      [] p = "simple" -> {"uart"}
      [] p = "prov" -> {"uart", "ssh"}
      [] p = "wprov" -> {"uart"}

(***************************************************************************)
(* The tasks that call send_key.  "evt" is the event-loop task running     *)
(* wifi_event_handler, "main" the main task running wifi_provisioning,     *)
(* "sim" simulated_ssh_task.                                               *)
(***************************************************************************)
Tasks(p) ==
    CASE p = "prov" -> {"uart", "ssh", "evt", "main"}
      [] p = "simple" -> {"uart", "sim"}
      [] OTHER -> Sources(p)

InitialStage(t) ==
    CASE t = "evt" -> "idle"
      [] t = "main" -> "wait"
      [] t = "ssh" -> "none"
      [] OTHER -> "ready"

(***************************************************************************)
(* ssh_server_task of provisioned-keyboard.c about to serve its n-th       *)
(* connection: handle_ssh_session's locals as their initializers leave     *)
(* them (keyboard_task has none), and the record of the connection empty.  *)
(*   pc          the call or loop the task is at                           *)
(*   kex         ssh_handle_key_exchange returned SSH_OK                   *)
(*   auth        the user and password of the request that was answered    *)
(*               with success                                              *)
(*   channel     "NULL", "open", "eof" (the client sent EOF), "error" (the *)
(*               connection broke) or "freed"                              *)
(*   shell       the shell request has been answered with success          *)
(*   tasks       ssh_keyboard_task instances that exist                    *)
(*   deletes     vTaskDelete calls made on the task created for this       *)
(*               connection                                                *)
(*   read_freed  ssh_channel_read was called on a freed channel            *)
(*   session     "new", "accepted" or "freed"                              *)
(*   mark        Len(sink) when the connection was accepted                *)
(***************************************************************************)
NULL == "NULL"

ServerStart(n) ==
    [pc |-> "ssh_bind_accept", kex |-> FALSE, auth_success |-> FALSE, auth |-> <<>>,
     channel |-> NULL, keyboard_task |-> "uninitialized", shell |-> FALSE,
     tasks |-> 0, deletes |-> 0, read_freed |-> FALSE, session |-> "new",
     mark |-> 0, n |-> n]

SlotIndex == 0 .. SSH_MAX_CLIENTS - 1

UartStart == [rx |-> <<>>, uart0_queue |-> <<>>, received |-> 0, flushed |-> <<>>]

SlotStart ==
    [i |-> 0, pc |-> "scan", sessions_alive |-> 0, channels_alive |-> 0,
     last_failed |-> "none"]

InitDecoder ==
    /\ ssh_sessions = [i \in SlotIndex |-> NULL]
    /\ ssh_channels = [i \in SlotIndex |-> NULL]
    /\ slot = SlotStart
    /\ uart = UartStart
    /\ server = ServerStart(0)
    /\ escape_seq_buf = ZeroBuf
    /\ escape_seq_idx = 0
    /\ prev_char = 0
    /\ ub = FALSE
    /\ hist = <<>>
    /\ collect_run = 0
    /\ ssh_session = 1

InitTasks ==
    /\ sink = <<>>
    /\ task_state = [t \in Tasks(prog) |->
                        [stage |-> InitialStage(t), todo |-> <<>>, then |-> 0,
                         n |-> 0, c |-> 0]]
    /\ pos = [t \in Tasks(prog) |-> 0]
    /\ wifi_event_group = {}
    /\ ip_str = <<>>

Init ==
    /\ prog \in Programs
    /\ source \in Sources(prog)
    /\ tud_mounted \in BOOLEAN
    /\ InitDecoder
    /\ InitTasks

(***************************************************************************)
(* Consume(r, c): commit the result r of a byte-loop iteration on byte c.  *)
(* An out-of-bounds store is undefined behaviour: the byte lands either in *)
(* memory the model does not read or in the int that follows the array,    *)
(* escape_seq_idx, whose low byte it replaces before the increment.        *)
(***************************************************************************)
Active(s) == source \in {s, "both"}

ConsumeByte(r, c, s) ==
    /\ ~ub
    /\ escape_seq_buf' = r.buf
    /\ prev_char' = r.prev_char
    /\ ub' = r.oob
    /\ IF r.oob
       THEN escape_seq_idx' \in {r.idx, c + 1}
       ELSE escape_seq_idx' = r.idx
    /\ hist' = Append(hist, [byte |-> c, idle |-> escape_seq_idx = 0,
                             prev |-> prev_char, frames |-> r.frames, src |-> s,
                             session |-> IF s = "ssh" THEN ssh_session ELSE 0])
    /\ collect_run' = IF c = CH_NUL THEN collect_run
                      ELSE IF r.idx = 0 THEN 0
                      ELSE IF c = CH_ESC THEN 1
                      ELSE collect_run + 1
    /\ UNCHANGED <<prog, source, tud_mounted, ssh_session, ssh_sessions, server,
                   slotVars>>
    /\ UNCHANGED taskVars

Consume(r, c, s) == ConsumeByte(r, c, s) /\ UNCHANGED uart

UartEsp32(c) ==
    /\ prog = "esp32" /\ Active("uart")
    /\ Consume(uart_byte_esp32(escape_seq_idx, escape_seq_buf, prev_char, c,
                               tud_mounted), c, "uart")

UartSsh(c) ==
    /\ prog = "ssh" /\ Active("uart")
    /\ Consume(uart_byte_ssh(escape_seq_idx, escape_seq_buf, prev_char, c,
                             tud_mounted), c, "uart")

ChannelData(c) ==
    /\ prog = "ssh" /\ Active("ssh")
    /\ Consume(channel_data_byte(escape_seq_idx, escape_seq_buf, prev_char, c,
                                 tud_mounted), c, "ssh")

UartSimple(c) ==
    /\ prog = "simple" /\ Active("uart")
    /\ Consume(uart_byte_simple(escape_seq_idx, escape_seq_buf, prev_char, c,
                                tud_mounted), c, "uart")

UartProv(c) ==
    /\ prog = "prov" /\ Active("uart")
    /\ Consume(uart_byte_prov(escape_seq_idx, escape_seq_buf, prev_char, c,
                              tud_mounted), c, "uart")

SshKeyboardProv(c) ==
    /\ prog = "prov" /\ Active("ssh")
    /\ Consume(ssh_keyboard_byte_prov(escape_seq_idx, escape_seq_buf, prev_char, c,
                                      tud_mounted), c, "ssh")

UartWprov(c) ==
    /\ prog = "wprov" /\ Active("uart")
    /\ Consume(uart_byte_wprov(escape_seq_idx, escape_seq_buf, prev_char, c,
                               tud_mounted), c, "uart")

Next ==
    \/ \E c \in Alphabet : Len(hist) < MaxFeed /\ UartEsp32(c)
    \/ \E c \in Alphabet : Len(hist) < MaxFeed /\ UartSsh(c)
    \/ \E c \in Alphabet : Len(hist) < MaxFeed /\ ChannelData(c)
    \/ \E c \in Alphabet : Len(hist) < MaxFeed /\ UartSimple(c)
    \/ \E c \in Alphabet : Len(hist) < MaxFeed /\ UartProv(c)
    \/ \E c \in Alphabet : Len(hist) < MaxFeed /\ SshKeyboardProv(c)
    \/ \E c \in Alphabet : Len(hist) < MaxFeed /\ UartWprov(c)

Spec == Init /\ [][Next]_vars

(***************************************************************************)
(* Long streams over a small alphabet: the length of an unresolved         *)
(* escape sequence.                                                        *)
(***************************************************************************)
InitLong == Init /\ prog \in {"esp32", "ssh"}

NextLong ==
    \/ \E c \in LongAlphabet : Len(hist) < MaxLong /\ UartEsp32(c)
    \/ \E c \in LongAlphabet : Len(hist) < MaxLong /\ UartSsh(c)
    \/ \E c \in LongAlphabet : Len(hist) < MaxLong /\ ChannelData(c)

SpecLong == InitLong /\ [][NextLong]_vars

(***************************************************************************)
(* Reading the history.                                                    *)
(***************************************************************************)
IdleAfter(n) ==
    IF n < Len(hist) THEN hist[n + 1].idle ELSE escape_seq_idx = 0

KeyEvent(modifier, keycode) == <<PressFrame(modifier, keycode), ReleaseFrame>>

HasEscapeBuffer == prog \in {"esp32", "ssh"}

\* hist[n-2..n] is ESC '[' x, consumed from escape_seq_idx = 0, sink ready.
CsiFinalAt(n, x) ==
    /\ n >= 3 /\ n <= Len(hist)
    /\ HasEscapeBuffer /\ tud_mounted
    /\ hist[n - 2].byte = CH_ESC /\ hist[n - 2].idle
    /\ hist[n - 1].byte = CH_LBRACKET
    /\ hist[n].byte = x

\* hist[n-3..n] is ESC '[' d '~', consumed from escape_seq_idx = 0, sink ready.
CsiTildeAt(n, d) ==
    /\ n >= 4 /\ n <= Len(hist)
    /\ HasEscapeBuffer /\ tud_mounted
    /\ hist[n - 3].byte = CH_ESC /\ hist[n - 3].idle
    /\ hist[n - 2].byte = CH_LBRACKET
    /\ hist[n - 1].byte = d
    /\ hist[n].byte = CH_TILDE

(***************************************************************************)
(* C5: ESC '[' X with X in {A, B, C, D}, fed to a decoder whose            *)
(* escape_seq_idx is 0 while the sink is ready, sends exactly one key      *)
(* event (Up, Down, Right, Left), nothing for ESC and '[', and leaves      *)
(* escape_seq_idx at 0; on the UART loops of esp32-wifi-keyboard.c and     *)
(* ssh-keyboard.c and on channel_data_callback.                            *)
(***************************************************************************)
ArrowKeycode(x) ==
    CASE x = CH_A -> HID_KEY_ARROW_UP
      [] x = CH_B -> HID_KEY_ARROW_DOWN
      [] x = CH_C -> HID_KEY_ARROW_RIGHT
      [] x = CH_D -> HID_KEY_ARROW_LEFT

C5_ArrowSequence ==
    \A n \in 1 .. Len(hist) : \A x \in {CH_A, CH_B, CH_C, CH_D} :
        CsiFinalAt(n, x) =>
            /\ hist[n - 2].frames = <<>>
            /\ hist[n - 1].frames = <<>>
            /\ hist[n].frames = KeyEvent(0, ArrowKeycode(x))
            /\ IdleAfter(n)

C5_Witness ==
    /\ prog = "ssh" /\ source = "ssh"
    /\ Len(hist) = 4
    /\ hist[1].byte = CH_LBRACKET
    /\ CsiFinalAt(4, CH_D)
    /\ hist[4].frames = KeyEvent(0, HID_KEY_ARROW_LEFT)
    /\ escape_seq_idx = 0

(***************************************************************************)
(* C6: ESC '[' 'H' sends exactly one Home key event and ESC '[' 'F'        *)
(* exactly one End key event, with escape_seq_idx 0 afterwards, on every   *)
(* byte path that keeps an escape buffer.                                  *)
(***************************************************************************)
HomeEndKeycode(x) ==
    CASE x = CH_H -> HID_KEY_HOME
      [] x = CH_F -> HID_KEY_END

C6_HomeEndSequence ==
    \A n \in 1 .. Len(hist) : \A x \in {CH_H, CH_F} :
        CsiFinalAt(n, x) =>
            /\ hist[n - 2].frames = <<>>
            /\ hist[n - 1].frames = <<>>
            /\ hist[n].frames = KeyEvent(0, HomeEndKeycode(x))
            /\ IdleAfter(n)

(***************************************************************************)
(* C7: ESC '[' d '~' with d in 1..6 sends exactly one key event            *)
(* (1 Home, 2 Insert, 3 Delete, 4 End, 5 PageUp, 6 PageDown), no literal   *)
(* key for the digit or for '~', and leaves escape_seq_idx at 0.           *)
(***************************************************************************)
TildeKeycode(d) ==
    CASE d = CH_1 -> HID_KEY_HOME
      [] d = CH_2 -> HID_KEY_INSERT
      [] d = CH_3 -> HID_KEY_DELETE
      [] d = CH_4 -> HID_KEY_END
      [] d = CH_5 -> HID_KEY_PAGE_UP
      [] d = CH_6 -> HID_KEY_PAGE_DOWN

C7_TildeSequence ==
    \A n \in 1 .. Len(hist) : \A d \in ExtendedDigits :
        CsiTildeAt(n, d) =>
            /\ hist[n - 3].frames = <<>>
            /\ hist[n - 2].frames = <<>>
            /\ hist[n - 1].frames = <<>>
            /\ hist[n].frames = KeyEvent(0, TildeKeycode(d))
            /\ IdleAfter(n)

(***************************************************************************)
(* C8: ESC followed by a byte x other than '[' sends nothing for the ESC,  *)
(* ends escape collection, and x is processed as a byte arriving with      *)
(* escape_seq_idx = 0 is: for x = 'a' one key event for 'a'.               *)
(***************************************************************************)
LoopStepOf(p, s, idx, buf, prev, c, mounted) ==
    CASE p = "esp32" -> uart_byte_esp32(idx, buf, prev, c, mounted)
      [] p = "ssh" /\ s = "uart" -> uart_byte_ssh(idx, buf, prev, c, mounted)
      [] p = "ssh" /\ s = "ssh" -> channel_data_byte(idx, buf, prev, c, mounted)
      [] p = "simple" /\ s = "uart" -> uart_byte_simple(idx, buf, prev, c, mounted)
      [] p = "simple" /\ s = "sim" -> simulated_ssh_byte(idx, buf, prev, c, mounted)
      [] p = "prov" /\ s = "uart" -> uart_byte_prov(idx, buf, prev, c, mounted)
      [] p = "prov" /\ s = "ssh" -> ssh_keyboard_byte_prov(idx, buf, prev, c, mounted)
      [] p = "wprov" -> uart_byte_wprov(idx, buf, prev, c, mounted)

LoopStep(idx, buf, prev, c, mounted) ==
    LoopStepOf(prog, source, idx, buf, prev, c, mounted)

EscThenOtherAt(n) ==
    /\ n >= 2 /\ n <= Len(hist)
    /\ HasEscapeBuffer /\ tud_mounted
    /\ hist[n - 1].byte = CH_ESC /\ hist[n - 1].idle
    /\ hist[n].byte \notin {CH_LBRACKET, CH_ESC, CH_NUL}

C8_EscapeAbort ==
    \A n \in 1 .. Len(hist) :
        EscThenOtherAt(n) =>
            /\ hist[n - 1].frames = <<>>
            /\ IdleAfter(n)
            /\ hist[n].frames =
                   LoopStep(0, ZeroBuf, hist[n].prev, hist[n].byte, TRUE).frames
            /\ (hist[n].byte = CH_a /\ hist[n].prev = 0
                    => hist[n].frames = KeyEvent(0, HID_KEY_A))

(***************************************************************************)
(* C9: the literal string "Hi!" sends three key events in order: the H     *)
(* key with Shift, the I key without Shift, the 1 key with Shift; in       *)
(* every variant.                                                          *)
(***************************************************************************)
LiteralHiAt(n) ==
    /\ n >= 3 /\ n <= Len(hist)
    /\ tud_mounted
    /\ hist[n - 2].byte = CH_H /\ hist[n - 2].idle /\ hist[n - 2].prev = 0
    /\ hist[n - 1].byte = CH_i
    /\ hist[n].byte = CH_EXCL

C9_LiteralString ==
    \A n \in 1 .. Len(hist) :
        LiteralHiAt(n) =>
            /\ hist[n - 2].frames = KeyEvent(KEYBOARD_MODIFIER_LEFTSHIFT, HID_KEY_A + 7)
            /\ hist[n - 1].frames = KeyEvent(0, HID_KEY_A + 8)
            /\ hist[n].frames = KeyEvent(KEYBOARD_MODIFIER_LEFTSHIFT, HID_KEY_1)

(***************************************************************************)
(* C3: the escape buffer holds at most 8 bytes: no byte is ever stored     *)
(* at escape_seq_buf[8] or beyond, on any byte path, for any input.        *)
(***************************************************************************)
C3_BufferBound ==
    /\ ~ub
    /\ escape_seq_idx <= ESCAPE_SEQ_BUF_SIZE

(***************************************************************************)
(* C4: the decoder never stays collecting (escape_seq_idx > 0) for more    *)
(* than 8 consecutive bytes without escape_seq_idx being set back to 0.    *)
(***************************************************************************)
C4_CollectingProgress == collect_run <= ESCAPE_SEQ_BUF_SIZE

(***************************************************************************)
(* Single characters: every printable ASCII character typed through each   *)
(* byte loop, sink ready.                                                  *)
(***************************************************************************)
MaxTable == 1

PrintableAscii == CH_SPACE .. CH_TILDE

InitTable == Init /\ tud_mounted

NextTable ==
    \/ \E c \in PrintableAscii : Len(hist) < MaxTable /\ UartEsp32(c)
    \/ \E c \in PrintableAscii : Len(hist) < MaxTable /\ UartSsh(c)
    \/ \E c \in PrintableAscii : Len(hist) < MaxTable /\ ChannelData(c)
    \/ \E c \in PrintableAscii : Len(hist) < MaxTable /\ UartSimple(c)
    \/ \E c \in PrintableAscii : Len(hist) < MaxTable /\ UartProv(c)
    \/ \E c \in PrintableAscii : Len(hist) < MaxTable /\ SshKeyboardProv(c)
    \/ \E c \in PrintableAscii : Len(hist) < MaxTable /\ UartWprov(c)

SpecTable == InitTable /\ [][NextTable]_vars

(***************************************************************************)
(* The US keyboard layout: which key produces a character, and whether     *)
(* Shift is held for it.                                                   *)
(***************************************************************************)
UsShiftPartner ==
    (CH_EXCL :> CH_1) @@ (CH_AT :> CH_2) @@ (CH_HASH :> CH_3) @@ (CH_DOLLAR :> CH_4)
    @@ (CH_PERCENT :> CH_5) @@ (CH_CARET :> CH_6) @@ (CH_AMP :> CH_7)
    @@ (CH_STAR :> CH_8) @@ (CH_LPAREN :> CH_9) @@ (CH_RPAREN :> CH_0)
    @@ (CH_UNDERSCORE :> CH_MINUS) @@ (CH_PLUS :> CH_EQUAL)
    @@ (CH_LBRACE :> CH_LBRACKET) @@ (CH_RBRACE :> CH_RBRACKET)
    @@ (CH_PIPE :> CH_BACKSLASH) @@ (CH_COLON :> CH_SEMI) @@ (CH_DQUOTE :> CH_APOS)
    @@ (CH_LT :> CH_COMMA) @@ (CH_GT :> CH_PERIOD) @@ (CH_QUESTION :> CH_SLASH)
    @@ (CH_TILDE :> CH_GRAVE)
    @@ [c \in CH_A .. CH_Z |-> c - CH_A + CH_a]

UsPunctuationKey ==
    (CH_SPACE :> HID_KEY_SPACE) @@ (CH_MINUS :> HID_KEY_MINUS)
    @@ (CH_EQUAL :> HID_KEY_EQUAL) @@ (CH_LBRACKET :> HID_KEY_BRACKET_LEFT)
    @@ (CH_RBRACKET :> HID_KEY_BRACKET_RIGHT) @@ (CH_BACKSLASH :> HID_KEY_BACKSLASH)
    @@ (CH_SEMI :> HID_KEY_SEMICOLON) @@ (CH_APOS :> HID_KEY_APOSTROPHE)
    @@ (CH_GRAVE :> HID_KEY_GRAVE) @@ (CH_COMMA :> HID_KEY_COMMA)
    @@ (CH_PERIOD :> HID_KEY_PERIOD) @@ (CH_SLASH :> HID_KEY_SLASH)
    @@ (CH_0 :> HID_KEY_0)

UsNeedsShift(c) == c \in DOMAIN UsShiftPartner

UsUnshiftedKeycode(c) ==
    IF c \in CH_a .. CH_z THEN HID_KEY_A + (c - CH_a)
    ELSE IF c \in CH_1 .. CH_9 THEN HID_KEY_1 + (c - CH_1)
    ELSE UsPunctuationKey[c]

UsKeycode(c) ==
    UsUnshiftedKeycode(IF UsNeedsShift(c) THEN UsShiftPartner[c] ELSE c)

(***************************************************************************)
(* C10: for every printable ASCII character, char_to_hid_keycode returns   *)
(* the keycode of the US-layout key that produces it, and                  *)
(* char_needs_shift is true exactly when typing it requires Shift          *)
(* (esp32-wifi-keyboard.c, the file that has char_needs_shift).            *)
(***************************************************************************)
C10_KeycodeTable ==
    \A n \in 1 .. Len(hist) :
        (prog = "esp32" /\ hist[n].byte \in PrintableAscii) =>
            /\ char_to_hid_keycode(hist[n].byte) = UsKeycode(hist[n].byte)
            /\ char_needs_shift(hist[n].byte) = UsNeedsShift(hist[n].byte)

(***************************************************************************)
(* Two feeds at once.  ssh-keyboard.c: uart_event_task and                 *)
(* channel_data_callback (called in ssh_server_task) both run their byte   *)
(* loops on the one file-scope escape buffer.  ssh-keyboard-simple.c:      *)
(* uart_event_task and simulated_ssh_task both call send_key, whose        *)
(* prev_char is one static.  Each step is one whole byte of one feed.      *)
(***************************************************************************)
MaxShare == 4

ShareAlphabet == {CH_ESC, CH_LBRACKET, CH_A, CH_a}

InitShare ==
    /\ prog \in {"ssh", "simple"}
    /\ source = "both"
    /\ tud_mounted \in BOOLEAN
    /\ InitDecoder
    /\ InitTasks

CountFrom(h, s) == Cardinality({i \in 1 .. Len(h) : h[i].src = s})

SimulatedSsh ==
    /\ prog = "simple" /\ Active("sim")
    /\ tud_mounted
    /\ LET c == demo_text[(CountFrom(hist, "sim") % Len(demo_text)) + 1]
       IN  Consume(simulated_ssh_byte(escape_seq_idx, escape_seq_buf, prev_char, c,
                                      tud_mounted), c, "sim")

NextShare ==
    \/ \E c \in ShareAlphabet : Len(hist) < MaxShare /\ UartSsh(c)
    \/ \E c \in ShareAlphabet : Len(hist) < MaxShare /\ ChannelData(c)
    \/ \E c \in ShareAlphabet : Len(hist) < MaxShare /\ UartSimple(c)
    \/ Len(hist) < MaxShare /\ SimulatedSsh

SpecShare == InitShare /\ [][NextShare]_vars

RECURSIVE BytesFrom(_, _)
BytesFrom(h, s) ==
    IF h = <<>> THEN <<>>
    ELSE (IF Head(h).src = s THEN <<Head(h).byte>> ELSE <<>>) \o BytesFrom(Tail(h), s)

RECURSIVE FramesFrom(_, _)
FramesFrom(h, s) ==
    IF h = <<>> THEN <<>>
    ELSE (IF Head(h).src = s THEN Head(h).frames ELSE <<>>) \o FramesFrom(Tail(h), s)

RECURSIVE FramesAlone(_, _, _, _, _)
FramesAlone(s, idx, buf, prev, bytes) ==
    IF bytes = <<>> THEN <<>>
    ELSE LET r == LoopStepOf(prog, s, idx, buf, prev, Head(bytes), tud_mounted)
         IN  r.frames \o FramesAlone(s, r.idx, r.buf, r.prev_char, Tail(bytes))

(***************************************************************************)
(* C2: decoder state is never shared between sources: the frames produced  *)
(* from one source's bytes are the frames the same byte loop produces      *)
(* when it is fed those bytes alone, from the initial decoder state,       *)
(* whatever the other source receives and however the two interleave.      *)
(***************************************************************************)
C2_DecoderStatePrivate ==
    \A s \in {"uart", "ssh", "sim"} :
        FramesFrom(hist, s) = FramesAlone(s, 0, ZeroBuf, 0, BytesFrom(hist, s))

(***************************************************************************)
(* Tasks.  provisioned-keyboard.c and ssh-keyboard-simple.c at the         *)
(* granularity of the scheduler: send_key blocks in vTaskDelay after       *)
(* every tud_hid_keyboard_report, and any other task may run then.  A      *)
(* step is what one task does from one blocking call to the next.          *)
(*   stage "ready"        between two send_key calls                       *)
(*         "held"         in vTaskDelay(50) after a press report           *)
(*         "replay_held"  in vTaskDelay(50) after the press of a           *)
(*                        replayed '[' (ssh-keyboard-simple.c)             *)
(*         "replay_gap"   in vTaskDelay(10) after its release              *)
(*         "wait"         wifi_provisioning in xEventGroupWaitBits         *)
(*         "idle"         no event being handled by wifi_event_handler     *)
(*         "done"         wifi_provisioning has returned                   *)
(*         "none"         no ssh_keyboard_task exists                      *)
(* ok is what tud_hid_keyboard_report returns: whether the sink took the   *)
(* frame.  send_key and send_keycode discard it (after_report), and        *)
(* return void whatever happened (send_key_result).                        *)
(***************************************************************************)
MaxSink == 5
MaxConcBytes == 2

ConcAlphabet == {CH_LBRACKET, CH_a, CH_H}

IpAddresses == {<<10, 0, 0, 7>>, <<192, 168, 4, 1>>}

InitConc ==
    /\ prog \in {"prov", "simple"}
    /\ source = "both"
    /\ tud_mounted \in BOOLEAN
    /\ InitDecoder
    /\ InitTasks

decoderVars == <<prog, source, tud_mounted, escape_seq_buf, escape_seq_idx, ub, hist,
                 collect_run, ssh_session, serverVars>>

SinkFrame(t, f, ok) ==
    [task |-> t, kind |-> f.kind, modifier |-> f.modifier, keycode |-> f.keycode,
     n |-> task_state[t].n, c |-> task_state[t].c, ok |-> ok]

FirstSinkFrame(t, f, n, c, ok) ==
    [task |-> t, kind |-> f.kind, modifier |-> f.modifier, keycode |-> f.keycode,
     n |-> n, c |-> c, ok |-> ok]

SinkPrepend(log, f) == <<f>> \o log

SinkAppend(log, f) == Append(log, f)

Stage(t) == task_state[t].stage

SetStage(t, st) == [task_state EXCEPT ![t].stage = st]

Returned(st) == [stage |-> st, todo |-> <<>>, then |-> 0, n |-> 0, c |-> 0]

after_report_checked(ok, st) == IF ok THEN st ELSE "ready"

after_report(ok, st) == st

send_key_result(ok) == "void"

send_key_of(p, prev, c, mounted) ==
    IF p = "simple" THEN send_key_simple(prev, c, mounted)
    ELSE send_key_prov(prev, c, mounted)

(***************************************************************************)
(* send_key(c) called by task t, up to its first vTaskDelay.  In           *)
(* ssh-keyboard-simple.c a pending '[' that c does not complete is         *)
(* replayed first, and prev_char is written only after the replay.         *)
(***************************************************************************)
EnterSendKey(t, c, ok) ==
    LET r == send_key_of(prog, prev_char, c, tud_mounted)
        replay == /\ prog = "simple" /\ tud_mounted
                  /\ prev_char = CH_LBRACKET /\ escape_final_switch(c) = 0
    IN  IF r.frames = <<>>
        THEN /\ prev_char' = r.prev_char
             /\ UNCHANGED <<sink, task_state>>
        ELSE /\ sink' = SinkAppend(sink, FirstSinkFrame(t, Head(r.frames),
                                                        pos[t] + 1, c, ok))
             /\ prev_char' = IF replay THEN prev_char ELSE r.prev_char
             /\ task_state' = [task_state EXCEPT ![t] =
                                  [stage |-> after_report(ok, IF replay THEN "replay_held"
                                                              ELSE "held"),
                                   todo |-> Tail(r.frames), then |-> r.prev_char,
                                   n |-> pos[t] + 1, c |-> c]]

TakeChar(t, c, ok) ==
    /\ Stage(t) = "ready"
    /\ Len(sink) < MaxSink
    /\ EnterSendKey(t, c, ok)
    /\ UNCHANGED <<decoderVars, wifi_event_group, ip_str>>

ConcUart(c, ok) ==
    /\ "uart" \in Tasks(prog)
    /\ pos["uart"] < MaxConcBytes
    /\ TakeChar("uart", c, ok)
    /\ pos' = [pos EXCEPT !["uart"] = @ + 1]

ConcSshKeyboard(c, ok) ==
    /\ prog = "prov"
    /\ pos["ssh"] < MaxConcBytes
    /\ TakeChar("ssh", c, ok)
    /\ pos' = [pos EXCEPT !["ssh"] = @ + 1]

ConcSimulatedSsh(ok) ==
    /\ prog = "simple"
    /\ tud_mounted
    /\ TakeChar("sim", demo_text[(pos["sim"] % Len(demo_text)) + 1], ok)
    /\ pos' = [pos EXCEPT !["sim"] = @ + 1]

(***************************************************************************)
(* handle_ssh_session (provisioned-keyboard.c) creates ssh_keyboard_task   *)
(* once the shell is requested, and calls vTaskDelete on it when the       *)
(* channel is closed or at EOF, wherever the task is at that moment.       *)
(* ssh_server_init runs after wifi_provisioning has returned.              *)
(***************************************************************************)
SshSessionStart ==
    /\ prog = "prov"
    /\ Stage("main") = "done"
    /\ Stage("ssh") = "none"
    /\ task_state' = SetStage("ssh", "ready")
    /\ UNCHANGED <<decoderVars, prev_char, sink, pos, wifi_event_group, ip_str>>

SshSessionEnd ==
    /\ prog = "prov"
    /\ Stage("ssh") # "none"
    /\ task_state' = [task_state EXCEPT !["ssh"] = Returned("none")]
    /\ UNCHANGED <<decoderVars, prev_char, sink, pos, wifi_event_group, ip_str>>

GotIp(ip) ==
    /\ prog = "prov"
    /\ Stage("evt") = "idle"
    /\ wifi_event_group' = wifi_event_group \cup {"WIFI_CONNECTED_BIT"}
    /\ ip_str' = format_ip_str(ip)
    /\ task_state' = SetStage("evt", "ready")
    /\ pos' = [pos EXCEPT !["evt"] = 0]
    /\ UNCHANGED <<decoderVars, prev_char, sink>>

StaDisconnected ==
    /\ prog = "prov"
    /\ Stage("evt") = "idle"
    /\ wifi_event_group' = wifi_event_group \cup {"WIFI_FAIL_BIT"}
    /\ UNCHANGED <<decoderVars, prev_char, sink, task_state, pos, ip_str>>

WifiEventHandlerType(ok) ==
    /\ prog = "prov"
    /\ pos["evt"] < Len(ip_str)
    /\ TakeChar("evt", ip_str[pos["evt"] + 1], ok)
    /\ pos' = [pos EXCEPT !["evt"] = @ + 1]

WifiEventHandlerReturn ==
    /\ prog = "prov"
    /\ Stage("evt") = "ready"
    /\ pos["evt"] = Len(ip_str)
    /\ task_state' = SetStage("evt", "idle")
    /\ UNCHANGED <<decoderVars, prev_char, sink, pos, wifi_event_group, ip_str>>

ProvisioningWake ==
    /\ prog = "prov"
    /\ Stage("main") = "wait"
    /\ wifi_event_group # {}
    /\ task_state' = SetStage("main", IF "WIFI_CONNECTED_BIT" \in wifi_event_group
                                      THEN "ready" ELSE "done")
    /\ UNCHANGED <<decoderVars, prev_char, sink, pos, wifi_event_group, ip_str>>

ProvisioningType(ok) ==
    /\ prog = "prov"
    /\ pos["main"] < Len(success_msg)
    /\ TakeChar("main", success_msg[pos["main"] + 1], ok)
    /\ pos' = [pos EXCEPT !["main"] = @ + 1]

ProvisioningReturn ==
    /\ prog = "prov"
    /\ Stage("main") = "ready"
    /\ pos["main"] = Len(success_msg)
    /\ task_state' = SetStage("main", "done")
    /\ UNCHANGED <<decoderVars, prev_char, sink, pos, wifi_event_group, ip_str>>

ReleaseKey(t, ok) ==
    /\ Stage(t) = "held"
    /\ sink' = SinkAppend(sink, SinkFrame(t, Head(task_state[t].todo), ok))
    /\ task_state' = [task_state EXCEPT ![t] = Returned(after_report(ok, "ready"))]
    /\ UNCHANGED <<decoderVars, prev_char, pos, wifi_event_group, ip_str>>

ReplayRelease(t, ok) ==
    /\ Stage(t) = "replay_held"
    /\ sink' = SinkAppend(sink, SinkFrame(t, Head(task_state[t].todo), ok))
    /\ task_state' = [task_state EXCEPT ![t].stage = after_report(ok, "replay_gap"),
                                        ![t].todo = Tail(@)]
    /\ UNCHANGED <<decoderVars, prev_char, pos, wifi_event_group, ip_str>>

ReplayContinue(t, ok) ==
    /\ Stage(t) = "replay_gap"
    /\ prev_char' = task_state[t].then
    /\ IF task_state[t].todo = <<>>
       THEN /\ task_state' = [task_state EXCEPT ![t] = Returned("ready")]
            /\ UNCHANGED sink
       ELSE /\ sink' = SinkAppend(sink, SinkFrame(t, Head(task_state[t].todo), ok))
            /\ task_state' = [task_state EXCEPT ![t].stage = after_report(ok, "held"),
                                                ![t].todo = Tail(@)]
    /\ UNCHANGED <<decoderVars, pos, wifi_event_group, ip_str>>

NextConc ==
    \/ \E c \in ConcAlphabet : ConcUart(c, TRUE)
    \/ \E c \in ConcAlphabet : ConcSshKeyboard(c, TRUE)
    \/ ConcSimulatedSsh(TRUE)
    \/ SshSessionStart
    \/ SshSessionEnd
    \/ \E ip \in IpAddresses : GotIp(ip)
    \/ StaDisconnected
    \/ WifiEventHandlerType(TRUE)
    \/ WifiEventHandlerReturn
    \/ ProvisioningWake
    \/ ProvisioningType(TRUE)
    \/ ProvisioningReturn
    \/ \E t \in Tasks(prog) : ReleaseKey(t, TRUE)
    \/ \E t \in Tasks(prog) : ReplayRelease(t, TRUE)
    \/ \E t \in Tasks(prog) : ReplayContinue(t, TRUE)

SpecConc == InitConc /\ [][NextConc]_vars

(***************************************************************************)
(* C1: for any interleaving of the emitting tasks, the frames the sink     *)
(* observes are complete (press, release) pairs: every press frame is      *)
(* followed directly by the release frame of the same task's emission, so  *)
(* no task's press lies between another task's press and release.          *)
(***************************************************************************)
C1_CompletePairs ==
    \A i \in 1 .. Len(sink) :
        (sink[i].kind = "press" /\ i < Len(sink)) =>
            /\ sink[i + 1].kind = "release"
            /\ sink[i + 1].task = sink[i].task

(***************************************************************************)
(* C11: while tud_mounted() is false no byte causes a press or a release   *)
(* frame, on any byte path of the five files, including send_keycode       *)
(* called for a resolved escape sequence; the bytes are consumed all the   *)
(* same.  (Every vTaskDelay of send_key and send_keycode follows a report, *)
(* so a call that sends no frame does not block.)                          *)
(***************************************************************************)
C11_UnreadySink ==
    ~tud_mounted => \A n \in 1 .. Len(hist) : hist[n].frames = <<>>

C11_Witness ==
    /\ ~tud_mounted
    /\ prog = "esp32"
    /\ Len(hist) = 4
    /\ hist[1].byte = CH_a
    /\ hist[2].byte = CH_ESC /\ hist[3].byte = CH_LBRACKET /\ hist[4].byte = CH_A
    /\ hist[4].frames = <<>>
    /\ escape_seq_idx = 0

(***************************************************************************)
(* C17: in provisioned-keyboard.c the bytes ESC '[' 'A' read by            *)
(* ssh_keyboard_task or uart_event_task put exactly one press frame, the   *)
(* Up-arrow keycode, and its release on the sink.                          *)
(***************************************************************************)
C17_ProvisionedArrow ==
    \A n \in 3 .. Len(hist) :
        ( /\ prog = "prov" /\ tud_mounted
          /\ hist[n - 2].byte = CH_ESC
          /\ hist[n - 1].byte = CH_LBRACKET
          /\ hist[n].byte = CH_A ) =>
            hist[n - 2].frames \o hist[n - 1].frames \o hist[n].frames
                = KeyEvent(0, HID_KEY_ARROW_UP)

(***************************************************************************)
(* C18: with no escape sequence in progress, every non-ESC byte that has   *)
(* a keycode causes exactly one key event, with that byte's own keycode,   *)
(* while the byte is processed; '[' and the characters after it included.  *)
(***************************************************************************)
C18_IdleLiteral ==
    \A n \in 1 .. Len(hist) :
        ( /\ tud_mounted /\ hist[n].idle
          /\ hist[n].byte # CH_ESC
          /\ char_to_hid_keycode(hist[n].byte) # 0 ) =>
            /\ Len(hist[n].frames) = 2
            /\ hist[n].frames[1].kind = "press"
            /\ hist[n].frames[1].keycode = char_to_hid_keycode(hist[n].byte)
            /\ hist[n].frames[2] = ReleaseFrame

(***************************************************************************)
(* C19: a byte for which char_to_hid_keycode returns 0, received with no   *)
(* escape sequence in progress, causes no press and no release frame.      *)
(***************************************************************************)
C19_UnmappedDropped ==
    \A n \in 1 .. Len(hist) :
        (hist[n].idle /\ char_to_hid_keycode(hist[n].byte) = 0) =>
            hist[n].frames = <<>>

(***************************************************************************)
(* C20: each byte causes zero or one key event (at most one press and one  *)
(* release frame), none held back for a later byte.                        *)
(***************************************************************************)
C20_AtMostOneEvent ==
    \A n \in 1 .. Len(hist) : Len(hist[n].frames) <= 2

(***************************************************************************)
(* SSH sessions one after another (ssh-keyboard.c).  ssh_server_task       *)
(* accepts a client into a free slot of ssh_sessions and installs the      *)
(* same channel_cb on its channel; it touches neither the escape buffer    *)
(* nor prev_char.  A slot, once established, is never cleared, so at most  *)
(* SSH_MAX_CLIENTS sessions ever deliver bytes.                            *)
(***************************************************************************)
MaxSessionFeed == 4

InitSession ==
    /\ prog = "ssh"
    /\ source = "ssh"
    /\ tud_mounted \in BOOLEAN
    /\ InitDecoder
    /\ InitTasks

SshAccept ==
    /\ prog = "ssh" /\ Active("ssh")
    /\ ssh_session < SSH_MAX_CLIENTS
    /\ ssh_session' = ssh_session + 1
    /\ UNCHANGED <<prog, source, tud_mounted, escape_seq_buf, escape_seq_idx,
                   prev_char, ub, hist, collect_run, serverVars>>
    /\ UNCHANGED taskVars

NextSession ==
    \/ \E c \in ShareAlphabet : Len(hist) < MaxSessionFeed /\ ChannelData(c)
    \/ SshAccept

SpecSession == InitSession /\ [][NextSession]_vars

RECURSIVE BytesOfSession(_, _)
BytesOfSession(h, k) ==
    IF h = <<>> THEN <<>>
    ELSE (IF Head(h).session = k THEN <<Head(h).byte>> ELSE <<>>)
         \o BytesOfSession(Tail(h), k)

RECURSIVE FramesOfSession(_, _)
FramesOfSession(h, k) ==
    IF h = <<>> THEN <<>>
    ELSE (IF Head(h).session = k THEN Head(h).frames ELSE <<>>)
         \o FramesOfSession(Tail(h), k)

(***************************************************************************)
(* C14: a session's decoder state ends with the session: the frames a      *)
(* session's bytes cause are those the same bytes cause from the initial   *)
(* decoder state (escape_seq_idx 0, empty buffer, no pending '['),         *)
(* whatever earlier sessions delivered.                                    *)
(***************************************************************************)
C14_FreshDecoderPerSession ==
    \A k \in 1 .. SSH_MAX_CLIENTS :
        FramesOfSession(hist, k)
            = FramesAlone("ssh", 0, ZeroBuf, 0, BytesOfSession(hist, k))

C13_SessionEndCompletes ==
    \A i \in 1 .. Len(sink) :
        ( /\ sink[i].task = "ssh" /\ sink[i].kind = "press"
          /\ task_state["ssh"].n # sink[i].n ) =>
            \E j \in (i + 1) .. Len(sink) :
                /\ sink[j].task = "ssh" /\ sink[j].kind = "release"
                /\ sink[j].n = sink[i].n

(***************************************************************************)
(* A sink that may refuse a frame: tud_hid_keyboard_report returns false.  *)
(* Sessions stay open here.                                                *)
(***************************************************************************)
MaxFailSink == 3

NextFail ==
    \/ \E c \in ConcAlphabet : \E ok \in BOOLEAN :
          Len(sink) < MaxFailSink /\ ConcUart(c, ok)
    \/ \E c \in ConcAlphabet : \E ok \in BOOLEAN :
          Len(sink) < MaxFailSink /\ ConcSshKeyboard(c, ok)
    \/ \E ok \in BOOLEAN : Len(sink) < MaxFailSink /\ ConcSimulatedSsh(ok)
    \/ SshSessionStart
    \/ \E ip \in IpAddresses : GotIp(ip)
    \/ StaDisconnected
    \/ \E ok \in BOOLEAN : Len(sink) < MaxFailSink /\ WifiEventHandlerType(ok)
    \/ WifiEventHandlerReturn
    \/ ProvisioningWake
    \/ \E ok \in BOOLEAN : Len(sink) < MaxFailSink /\ ProvisioningType(ok)
    \/ ProvisioningReturn
    \/ \E t \in Tasks(prog) : \E ok \in BOOLEAN : ReleaseKey(t, ok)
    \/ \E t \in Tasks(prog) : \E ok \in BOOLEAN : ReplayRelease(t, ok)
    \/ \E t \in Tasks(prog) : \E ok \in BOOLEAN : ReplayContinue(t, ok)

SpecFail == InitConc /\ [][NextFail]_vars

\* The frames task t tried to send for its n-th character, in order.
AttemptsOf(t, n) ==
    LET q == SelectSeq(sink, LAMBDA f : f.task = t /\ f.n = n)
    IN  [k \in 1 .. Len(q) |-> [kind |-> q[k].kind, modifier |-> q[k].modifier,
                                keycode |-> q[k].keycode]]

(***************************************************************************)
(* C15: a refused press or release frame costs that frame only.  The task  *)
(* goes on: for every character, the frames the task tries to send are     *)
(* those send_key sends for it when every report succeeds, all of them     *)
(* once the call has returned, whichever earlier reports were refused.     *)
(***************************************************************************)
C15_FailedReportNotFatal ==
    \A i \in 1 .. Len(sink) :
        LET t == sink[i].task
            n == sink[i].n
            att == AttemptsOf(t, n)
        IN  \E p \in {0, CH_LBRACKET} :
                LET exp == send_key_of(prog, p, sink[i].c, TRUE).frames
                IN  /\ Len(att) <= Len(exp)
                    /\ \A k \in 1 .. Len(att) : att[k] = exp[k]
                    /\ task_state[t].n # n => Len(att) = Len(exp)

C15_Witness ==
    /\ prog = "prov"
    /\ \E i \in 1 .. Len(sink) : \E j \in 1 .. Len(sink) :
          /\ i < j
          /\ sink[i].task = "uart" /\ sink[i].kind = "press" /\ ~sink[i].ok
          /\ sink[j].task = "uart" /\ sink[j].kind = "press" /\ sink[j].ok
          /\ sink[j].n = sink[i].n + 1

(***************************************************************************)
(* C16: when the sink refuses a frame, send_key / send_keycode hands its   *)
(* caller an outcome that differs from the outcome of a successful call.   *)
(***************************************************************************)
C16_FailureReported ==
    \A i \in 1 .. Len(sink) :
        ~sink[i].ok => send_key_result(sink[i].ok) # send_key_result(TRUE)

(***************************************************************************)
(* Escape sequences with a digit: esp32-wifi-keyboard.c and ssh-keyboard.c *)
(* fed bytes that include the digits and letters a terminal sends after    *)
(* ESC '['.                                                                *)
(***************************************************************************)
MaxEsc == 5

EscAlphabet == {CH_ESC, CH_LBRACKET, CH_A, CH_a, CH_3, CH_7, CH_TILDE}

InitEsc == Init /\ prog \in {"esp32", "ssh"}

NextEsc ==
    \/ \E c \in EscAlphabet : Len(hist) < MaxEsc /\ UartEsp32(c)
    \/ \E c \in EscAlphabet : Len(hist) < MaxEsc /\ UartSsh(c)
    \/ \E c \in EscAlphabet : Len(hist) < MaxEsc /\ ChannelData(c)

SpecEsc == InitEsc /\ [][NextEsc]_vars

NamedKeycodes ==
    {HID_KEY_ARROW_UP, HID_KEY_ARROW_DOWN, HID_KEY_ARROW_RIGHT, HID_KEY_ARROW_LEFT,
     HID_KEY_HOME, HID_KEY_END, HID_KEY_INSERT, HID_KEY_DELETE, HID_KEY_PAGE_UP,
     HID_KEY_PAGE_DOWN}

SendsNamedKey(n) ==
    \E k \in 1 .. Len(hist[n].frames) :
        /\ hist[n].frames[k].kind = "press"
        /\ hist[n].frames[k].keycode \in NamedKeycodes

\* hist[n-2..n] is ESC '[' d with d in 1..6, consumed from escape_seq_idx = 0.
CsiDigitAt(n) == \E d \in ExtendedDigits : CsiFinalAt(n, d)

(***************************************************************************)
(* C21: in esp32-wifi-keyboard.c, after ESC '[' d with d in 1..6 nothing   *)
(* has been sent and the decoder is still collecting; the key of d is sent *)
(* only on '~', so a next byte other than '~' (such as '7' or '8') sends   *)
(* no named key.                                                           *)
(***************************************************************************)
C21_DigitAwaitsTilde ==
    \A n \in 1 .. Len(hist) :
        (prog = "esp32" /\ CsiDigitAt(n)) =>
            /\ hist[n - 2].frames = <<>>
            /\ hist[n - 1].frames = <<>>
            /\ hist[n].frames = <<>>
            /\ ~IdleAfter(n)
            /\ (n < Len(hist) /\ hist[n + 1].byte # CH_TILDE) => ~SendsNamedKey(n + 1)

\* hist[n-k+1..n] is ESC '[' followed by k - 2 bytes 'a', consumed by a UART
\* loop from escape_seq_idx = 0 with the sink ready: k bytes of a sequence that
\* no table recognizes.
UnrecognizedAt(n, k) ==
    /\ k >= 2 /\ n >= k /\ n <= Len(hist)
    /\ HasEscapeBuffer /\ tud_mounted
    /\ hist[n].src = "uart"
    /\ hist[n - k + 1].byte = CH_ESC /\ hist[n - k + 1].idle
    /\ hist[n - k + 2].byte = CH_LBRACKET
    /\ \A j \in n - k + 3 .. n : hist[j].byte = CH_a

(***************************************************************************)
(* C22: on the UART loops of esp32-wifi-keyboard.c and ssh-keyboard.c an   *)
(* escape sequence that is not recognized is discarded exactly when it is  *)
(* ESCAPE_SEQ_BUF_SIZE (8) bytes long, ESC included: none of its bytes     *)
(* sends a frame, with fewer than 8 bytes the decoder is still collecting, *)
(* and with the eighth it is back at escape_seq_idx = 0 with no store      *)
(* outside the buffer.                                                     *)
(***************************************************************************)
C22_DiscardAtCap ==
    \A n \in 1 .. Len(hist) : \A k \in 2 .. ESCAPE_SEQ_BUF_SIZE :
        UnrecognizedAt(n, k) =>
            /\ \A j \in n - k + 1 .. n : hist[j].frames = <<>>
            /\ k < ESCAPE_SEQ_BUF_SIZE => ~IdleAfter(n)
            /\ k = ESCAPE_SEQ_BUF_SIZE => (IdleAfter(n) /\ ~ub)

LiteralCharAt(n) ==
    /\ n <= Len(hist)
    /\ tud_mounted
    /\ hist[n].idle /\ hist[n].prev # CH_LBRACKET
    /\ hist[n].byte # CH_LBRACKET
    /\ ~(HasEscapeBuffer /\ hist[n].byte = CH_ESC)
    /\ char_to_hid_keycode(hist[n].byte) # 0

(***************************************************************************)
(* C24: the modifier of a press frame is a function of the character       *)
(* alone: Left-Shift exactly for the characters that need Shift (the       *)
(* upper-case letters and the shifted symbols), never another modifier;    *)
(* named keys and release frames carry no modifier.                        *)
(***************************************************************************)
C24_ModifierFromCharacter ==
    \A n \in 1 .. Len(hist) :
        /\ \A k \in 1 .. Len(hist[n].frames) :
               LET f == hist[n].frames[k]
               IN  /\ f.modifier \in {0, KEYBOARD_MODIFIER_LEFTSHIFT}
                   /\ f.kind = "release" => f.modifier = 0
                   /\ f.keycode \in NamedKeycodes => f.modifier = 0
        /\ LiteralCharAt(n) =>
               /\ hist[n].frames # <<>>
               /\ hist[n].frames[1].modifier =
                      IF is_upper(hist[n].byte) \/ UsNeedsShift(hist[n].byte)
                      THEN KEYBOARD_MODIFIER_LEFTSHIFT ELSE 0

\* Some ESC '[' arrived before byte n with at least one byte in between or byte
\* n itself after it, and no ESC since: byte n can complete that sequence.
CompletesCsi(n) ==
    \E m \in 1 .. n - 2 :
        /\ hist[m].byte = CH_ESC
        /\ hist[m + 1].byte = CH_LBRACKET
        /\ \A j \in m + 1 .. n : hist[j].byte # CH_ESC

(***************************************************************************)
(* C25: a byte consumed while an escape sequence is being collected sends  *)
(* a named key only if it completes an ESC '[' sequence whose bytes all    *)
(* arrived since the most recent ESC; what an abandoned sequence left in   *)
(* escape_seq_buf takes no part.                                           *)
(***************************************************************************)
C25_NoStaleBytes ==
    \A n \in 1 .. Len(hist) :
        (HasEscapeBuffer /\ ~hist[n].idle /\ SendsNamedKey(n)) => CompletesCsi(n)

(***************************************************************************)
(* The SSH server of provisioned-keyboard.c, call by call.                 *)
(* ssh_server_task accepts one connection at a time and runs               *)
(* handle_ssh_session on it: key exchange, the authentication message      *)
(* loop, the channel-open message loop, the shell-request message loop,    *)
(* xTaskCreate(ssh_keyboard_task), the keep-alive loop, vTaskDelete,       *)
(* ssh_channel_free, return, and ssh_free back in ssh_server_task.         *)
(* ssh_message_get returns the client's next message, or NULL (got =       *)
(* FALSE) when the connection has ended.  The client decides what the      *)
(* messages are and when the channel ends.                                 *)
(***************************************************************************)
MaxConnections == 2

SSH_USERNAME == "admin"

SSH_PASSWORD == "esp32kbd"

SshUsers == {SSH_USERNAME, "root", NULL}

SshPasswords == {SSH_PASSWORD, "guess", NULL}

SshMessage(type, subtype, user, password) ==
    [type |-> type, subtype |-> subtype, user |-> user, password |-> password]

SshMessages ==
    {SshMessage("SSH_REQUEST_AUTH", m, u, p) :
        m \in {"SSH_AUTH_METHOD_PASSWORD", "SSH_AUTH_METHOD_PUBLICKEY"},
        u \in SshUsers, p \in SshPasswords}
    \cup {SshMessage("SSH_REQUEST_CHANNEL_OPEN", m, NULL, NULL) :
             m \in {"SSH_CHANNEL_SESSION", "SSH_CHANNEL_DIRECT_TCPIP"}}
    \cup {SshMessage("SSH_REQUEST_CHANNEL", m, NULL, NULL) :
             m \in {"SSH_CHANNEL_REQUEST_SHELL", "SSH_CHANNEL_REQUEST_PTY"}}

ServerAlphabet == {CH_a, CH_A}

InitServer ==
    /\ prog = "prov"
    /\ source = "ssh"
    /\ tud_mounted \in BOOLEAN
    /\ InitDecoder
    /\ sink = <<>>
    /\ task_state = [t \in Tasks(prog) |->
                        [stage |-> IF t = "main" THEN "done" ELSE InitialStage(t),
                         todo |-> <<>>, then |-> 0, n |-> 0, c |-> 0]]
    /\ pos = [t \in Tasks(prog) |-> 0]
    /\ wifi_event_group = {"WIFI_FAIL_BIT"}
    /\ ip_str = <<>>

serverFrame == <<prog, source, tud_mounted, escape_seq_buf, escape_seq_idx, prev_char,
                 ub, hist, collect_run, sink, pos, wifi_event_group, ip_str,
                 ssh_session, ssh_sessions, uart, slotVars>>

At(pc) == prog = "prov" /\ server.pc = pc

Goto(pc) == [server EXCEPT !.pc = pc]

password_matches_any(user, password) == TRUE

password_matches(user, password) ==
    /\ user # NULL /\ password # NULL
    /\ user = SSH_USERNAME /\ password = SSH_PASSWORD

after_keep_alive_free == "ssh_channel_free"

after_keep_alive == "vTaskDelete"

after_vTaskDelete == "ssh_channel_free"

after_ssh_channel_free == "ssh_free"

SshBindAccept(ok) ==
    /\ At("ssh_bind_accept")
    /\ server.n < MaxConnections
    /\ server' = IF ok
                 THEN [ServerStart(server.n + 1) EXCEPT
                          !.pc = "ssh_handle_key_exchange", !.session = "accepted",
                          !.mark = Len(sink), !.tasks = server.tasks,
                          !.read_freed = server.read_freed]
                 ELSE [server EXCEPT !.pc = "ssh_free", !.session = "new",
                                     !.n = @ + 1]
    /\ UNCHANGED <<serverFrame, task_state>>

KeyExchange(ok) ==
    /\ At("ssh_handle_key_exchange")
    /\ server' = IF ok THEN [server EXCEPT !.pc = "auth", !.kex = TRUE]
                 ELSE Goto("ssh_free")
    /\ UNCHANGED <<serverFrame, task_state>>

AuthMessage(got, msg) ==
    /\ At("auth")
    /\ server' =
           IF ~got THEN Goto("ssh_free")
           ELSE IF /\ msg.type = "SSH_REQUEST_AUTH"
                   /\ msg.subtype = "SSH_AUTH_METHOD_PASSWORD"
                   /\ password_matches(msg.user, msg.password)
           THEN [server EXCEPT !.pc = "channel_open", !.auth_success = TRUE,
                               !.auth = <<msg.user, msg.password>>]
           ELSE server
    /\ UNCHANGED <<serverFrame, task_state>>

ChannelOpenMessage(got, msg, accepted) ==
    /\ At("channel_open")
    /\ server' =
           IF ~got THEN Goto("ssh_free")
           ELSE IF /\ msg.type = "SSH_REQUEST_CHANNEL_OPEN"
                   /\ msg.subtype = "SSH_CHANNEL_SESSION"
           THEN IF accepted THEN [server EXCEPT !.pc = "shell", !.channel = "open"]
                ELSE Goto("ssh_free")
           ELSE server
    /\ UNCHANGED <<serverFrame, task_state>>

ShellMessage(got, msg) ==
    /\ At("shell")
    /\ server' =
           IF ~got THEN [server EXCEPT !.pc = "xTaskCreate", !.channel = "error"]
           ELSE IF /\ msg.type = "SSH_REQUEST_CHANNEL"
                   /\ msg.subtype = "SSH_CHANNEL_REQUEST_SHELL"
           THEN [server EXCEPT !.pc = "xTaskCreate", !.shell = TRUE]
           ELSE server
    /\ UNCHANGED <<serverFrame, task_state>>

\* The client sends EOF, or the connection breaks.  (A connection whose message
\* stream has ended, got = FALSE, is broken as well.)
ChannelEnds(how) ==
    /\ prog = "prov"
    /\ server.channel = "open"
    /\ server' = [server EXCEPT !.channel = how]
    /\ UNCHANGED <<serverFrame, task_state>>

\* xTaskCreate writes the handle only when it has created the task.
CreateKeyboardTask(ok) ==
    /\ At("xTaskCreate")
    /\ IF ok
       THEN /\ server' = [server EXCEPT !.pc = "keep_alive", !.keyboard_task = "handle",
                                        !.tasks = @ + 1]
            /\ task_state' = SetStage("ssh", "ready")
       ELSE /\ server' = Goto("keep_alive")
            /\ UNCHANGED task_state
    /\ UNCHANGED serverFrame

KeepAliveExit ==
    /\ At("keep_alive")
    /\ server.channel # "open"
    /\ server' = Goto(after_keep_alive)
    /\ UNCHANGED <<serverFrame, task_state>>

\* if (keyboard_task) vTaskDelete(keyboard_task): the handle is never NULL
\* after a successful xTaskCreate; it is stale when the task has deleted itself
\* and indeterminate when xTaskCreate failed, and what vTaskDelete does then is
\* undefined: the firmware carries on or stops.
DeleteKeyboardTask(carry_on) ==
    /\ At("vTaskDelete")
    /\ IF server.keyboard_task = "handle" /\ Stage("ssh") # "none"
       THEN /\ task_state' = [task_state EXCEPT !["ssh"] = Returned("none")]
            /\ server' = [server EXCEPT !.pc = after_vTaskDelete, !.tasks = @ - 1,
                                        !.deletes = @ + 1]
       ELSE /\ UNCHANGED task_state
            /\ server' = [server EXCEPT
                             !.pc = IF carry_on THEN after_vTaskDelete ELSE "abort",
                             !.deletes = IF server.keyboard_task = "handle"
                                         THEN @ + 1 ELSE @]
    /\ UNCHANGED serverFrame

FreeChannel ==
    /\ At("ssh_channel_free")
    /\ server' = [server EXCEPT !.pc = after_ssh_channel_free, !.channel = "freed"]
    /\ UNCHANGED <<serverFrame, task_state>>

SshFree ==
    /\ At("ssh_free")
    /\ server' = [server EXCEPT !.pc = "ssh_bind_accept", !.session = "freed"]
    /\ UNCHANGED <<serverFrame, task_state>>

\* ssh_keyboard_task: ssh_channel_read returns a byte of an open channel ...
SshChannelRead(c) ==
    /\ server.channel = "open"
    /\ ConcSshKeyboard(c, TRUE)

\* ... or SSH_ERROR, and the task leaves its loop and deletes itself.
SshChannelReadError ==
    /\ prog = "prov"
    /\ Stage("ssh") = "ready"
    /\ server.channel \in {"error", "freed"}
    /\ task_state' = [task_state EXCEPT !["ssh"] = Returned("none")]
    /\ server' = [server EXCEPT !.tasks = @ - 1, !.deletes = @ + 1,
                                !.read_freed = @ \/ server.channel = "freed"]
    /\ UNCHANGED serverFrame

NextServer ==
    \/ \E ok \in BOOLEAN : SshBindAccept(ok)
    \/ \E ok \in BOOLEAN : KeyExchange(ok)
    \/ \E got \in BOOLEAN, msg \in SshMessages : AuthMessage(got, msg)
    \/ \E got \in BOOLEAN, msg \in SshMessages, accepted \in BOOLEAN :
           ChannelOpenMessage(got, msg, accepted)
    \/ \E got \in BOOLEAN, msg \in SshMessages : ShellMessage(got, msg)
    \/ \E how \in {"eof", "error"} : ChannelEnds(how)
    \/ \E ok \in BOOLEAN : CreateKeyboardTask(ok)
    \/ KeepAliveExit
    \/ \E carry_on \in BOOLEAN : DeleteKeyboardTask(carry_on)
    \/ FreeChannel
    \/ SshFree
    \/ \E c \in ServerAlphabet : SshChannelRead(c)
    \/ SshChannelReadError
    \/ ReleaseKey("ssh", TRUE)

SpecServer == InitServer /\ [][NextServer]_vars

\* ssh_keyboard_task exists, or has sent a frame since the connection was
\* accepted.
KeyboardTaskStarted ==
    \/ Stage("ssh") # "none"
    \/ server.keyboard_task = "handle"
    \/ \E i \in server.mark + 1 .. Len(sink) : sink[i].task = "ssh"

(***************************************************************************)
(* C26: in provisioned-keyboard.c ssh_keyboard_task is created, and a      *)
(* frame of the SSH feed reaches the sink, only on a connection whose key  *)
(* exchange succeeded, on which a password request with SSH_USERNAME and   *)
(* SSH_PASSWORD was answered with success, and whose session channel was   *)
(* accepted.                                                               *)
(***************************************************************************)
C26_TaskNeedsAuthentication ==
    (prog = "prov" /\ KeyboardTaskStarted) =>
        /\ server.kex
        /\ server.auth_success
        /\ server.auth = <<SSH_USERNAME, SSH_PASSWORD>>
        /\ server.channel # NULL

C26_Witness ==
    /\ prog = "prov" /\ tud_mounted
    /\ server.n = 2
    /\ server.auth = <<SSH_USERNAME, SSH_PASSWORD>>
    /\ server.shell
    /\ server.mark = 0
    /\ Len(sink) = 2 /\ sink[1].task = "ssh" /\ sink[2].task = "ssh"
    /\ Stage("ssh") = "ready"

(***************************************************************************)
(* C27: ssh_keyboard_task is started only after the shell request has been *)
(* received and answered; when the message stream ends before a shell      *)
(* request, no keyboard task is started.                                   *)
(***************************************************************************)
C27_TaskNeedsShell ==
    (prog = "prov" /\ KeyboardTaskStarted) => server.shell

(***************************************************************************)
(* C28: the keyboard task of a connection is deleted at most once: after   *)
(* it has deleted itself on a read error, handle_ssh_session does not call *)
(* vTaskDelete on its handle.                                              *)
(***************************************************************************)
C28_DeletedOnce ==
    prog = "prov" => server.deletes <= 1

(***************************************************************************)
(* C29: ssh_channel_read is never called on a freed channel: no            *)
(* ssh_keyboard_task exists once the channel is freed; the session is      *)
(* freed only while ssh_server_task is outside handle_ssh_session; and at  *)
(* most one ssh_keyboard_task exists.                                      *)
(***************************************************************************)
C29_NoReadAfterFree ==
    prog = "prov" =>
        /\ ~server.read_freed
        /\ server.channel = "freed" => (Stage("ssh") = "none" /\ server.tasks = 0)
        /\ server.session = "freed" => server.pc \in {"ssh_bind_accept", "abort"}
        /\ server.tasks <= 1
        /\ server.tasks = (IF Stage("ssh") = "none" THEN 0 ELSE 1)

C29_Witness ==
    /\ prog = "prov" /\ tud_mounted
    /\ server.channel = "freed"
    /\ server.session = "freed"
    /\ server.deletes = 1
    /\ Len(sink) = 1 /\ sink[1].task = "ssh" /\ sink[1].kind = "press"

(***************************************************************************)
(* The session slots of ssh-keyboard.c.  Each pass of ssh_server_task's    *)
(* loop walks ssh_sessions and tries to accept a client into a NULL slot:  *)
(* when the session is established the slot keeps the session and the pass *)
(* ends; when ssh_bind_accept fails the slot is NULL again and the pass    *)
(* ends; when ssh_new, the key exchange, the channel or the shell request  *)
(* fails the slot is NULL again and the walk continues with the next slot. *)
(* Nothing else writes ssh_sessions.  A client may disconnect at any time. *)
(* The loop runs for ever, so a pass that can change something is          *)
(* eventually made.                                                        *)
(***************************************************************************)
MaxSlotFeed == 2

AcceptOutcomes == {"established", "accept_failed", "setup_failed"}

InitSlots ==
    /\ prog = "ssh"
    /\ source = "ssh"
    /\ tud_mounted \in BOOLEAN
    /\ InitDecoder
    /\ InitTasks

RECURSIVE accept_pass(_, _, _)
accept_pass(slots, i, outcome) ==
    IF i >= SSH_MAX_CLIENTS THEN slots
    ELSE IF slots[i] # NULL THEN accept_pass(slots, i + 1, outcome)
    ELSE IF outcome[i] = "established" THEN [slots EXCEPT ![i] = "open"]
    ELSE IF outcome[i] = "accept_failed" THEN slots
    ELSE accept_pass(slots, i + 1, outcome)

SshServerPass(outcome) ==
    /\ prog = "ssh"
    /\ ssh_sessions' = accept_pass(ssh_sessions, 0, outcome)
    /\ ssh_session' = IF ssh_sessions' = ssh_sessions THEN ssh_session
                      ELSE 1 + CHOOSE i \in SlotIndex : ssh_sessions'[i] # ssh_sessions[i]
    /\ UNCHANGED <<prog, source, tud_mounted, escape_seq_buf, escape_seq_idx,
                   prev_char, ub, hist, collect_run, server, uart, slotVars>>
    /\ UNCHANGED taskVars

ClientDisconnect(i) ==
    /\ prog = "ssh"
    /\ ssh_sessions[i] = "open"
    /\ ssh_sessions' = [ssh_sessions EXCEPT ![i] = "closed"]
    /\ UNCHANGED <<prog, source, tud_mounted, escape_seq_buf, escape_seq_idx,
                   prev_char, ub, hist, collect_run, ssh_session, server, uart,
                   slotVars>>
    /\ UNCHANGED taskVars

SlotChannelData(c) ==
    /\ ssh_sessions[ssh_session - 1] = "open"
    /\ ChannelData(c)

NextSlots ==
    \/ \E outcome \in [SlotIndex -> AcceptOutcomes] : SshServerPass(outcome)
    \/ \E i \in SlotIndex : ClientDisconnect(i)
    \/ \E c \in ShareAlphabet : Len(hist) < MaxSlotFeed /\ SlotChannelData(c)

SpecSlots ==
    /\ InitSlots
    /\ [][NextSlots]_vars
    /\ WF_vars(\E outcome \in [SlotIndex -> AcceptOutcomes] : SshServerPass(outcome))

(***************************************************************************)
(* C30: the slot of a client that has disconnected eventually becomes NULL *)
(* again, so that the server can accept a new client into it.              *)
(***************************************************************************)
C30_SlotReclaimed ==
    \A i \in SlotIndex : (ssh_sessions[i] = "closed") ~> (ssh_sessions[i] = NULL)

\* The bytes consumed from byte n on.
BytesSince(n) == [k \in 1 .. Len(hist) - n + 1 |-> hist[n + k - 1].byte]

(***************************************************************************)
(* C31: an ESC consumed in any decoder state sends nothing, drops what was *)
(* collected, and starts a sequence that consists of that ESC alone: the   *)
(* frames from there on are those of the same loop fed the same bytes with *)
(* an empty escape buffer (send_key's prev_char as it was).  ESC '[' ESC   *)
(* '[' 'A' is then one Up-arrow event.                                     *)
(***************************************************************************)
C31_EscRestarts ==
    \A n \in 1 .. Len(hist) :
        (HasEscapeBuffer /\ tud_mounted /\ hist[n].byte = CH_ESC) =>
            /\ hist[n].frames = <<>>
            /\ FramesFrom(SubSeq(hist, n, Len(hist)), source)
                   = FramesAlone(source, 0, ZeroBuf, hist[n].prev, BytesSince(n))

(***************************************************************************)
(* Feeds that contain NUL bytes, for all five files.                       *)
(***************************************************************************)
MaxNul == 4

NulAlphabet == {CH_NUL, CH_ESC, CH_LBRACKET, CH_A, CH_a}

NextNul ==
    \/ \E c \in NulAlphabet : Len(hist) < MaxNul /\ UartEsp32(c)
    \/ \E c \in NulAlphabet : Len(hist) < MaxNul /\ UartSsh(c)
    \/ \E c \in NulAlphabet : Len(hist) < MaxNul /\ ChannelData(c)
    \/ \E c \in NulAlphabet : Len(hist) < MaxNul /\ UartSimple(c)
    \/ \E c \in NulAlphabet : Len(hist) < MaxNul /\ UartProv(c)
    \/ \E c \in NulAlphabet : Len(hist) < MaxNul /\ SshKeyboardProv(c)
    \/ \E c \in NulAlphabet : Len(hist) < MaxNul /\ UartWprov(c)

SpecNul == Init /\ [][NextNul]_vars

RECURSIVE WithoutNul(_)
WithoutNul(bytes) ==
    IF bytes = <<>> THEN <<>>
    ELSE (IF Head(bytes) = CH_NUL THEN <<>> ELSE <<Head(bytes)>>)
         \o WithoutNul(Tail(bytes))

\* The decoder state the byte loop of source s reaches from (idx, buf, prev)
\* when it is fed bytes.
RECURSIVE StateAlone(_, _, _, _, _)
StateAlone(s, idx, buf, prev, bytes) ==
    IF bytes = <<>> THEN <<idx, buf, prev>>
    ELSE LET r == LoopStepOf(prog, s, idx, buf, prev, Head(bytes), tud_mounted)
         IN  StateAlone(s, r.idx, r.buf, r.prev_char, Tail(bytes))

(***************************************************************************)
(* C32: a NUL byte is skipped in every feed: it sends no frame, and the    *)
(* frames sent and the decoder state reached (escape_seq_idx,              *)
(* escape_seq_buf, prev_char) are those of the same feed with the NUL      *)
(* bytes taken out, also when a NUL falls inside an escape sequence.       *)
(***************************************************************************)
C32_NulSkipped ==
    LET clean == WithoutNul(BytesFrom(hist, source))
    IN  /\ \A n \in 1 .. Len(hist) : hist[n].byte = CH_NUL => hist[n].frames = <<>>
        /\ FramesFrom(hist, source) = FramesAlone(source, 0, ZeroBuf, 0, clean)
        /\ <<escape_seq_idx, escape_seq_buf, prev_char>>
               = StateAlone(source, 0, ZeroBuf, 0, clean)

C32_Witness ==
    /\ prog = "esp32" /\ tud_mounted
    /\ Len(hist) = 4
    /\ hist[1].byte = CH_ESC /\ hist[2].byte = CH_LBRACKET
    /\ hist[3].byte = CH_NUL /\ ~hist[3].idle /\ hist[3].frames = <<>>
    /\ hist[4].byte = CH_A /\ hist[4].frames = KeyEvent(0, HID_KEY_ARROW_UP)
    /\ escape_seq_idx = 0

(***************************************************************************)
(* The UART driver and uart_event_task of esp32-wifi-keyboard.c and        *)
(* ssh-keyboard.c, event by event.  The driver puts a received byte into   *)
(* its receive buffer and posts a UART_DATA event with the size; when the  *)
(* FIFO or the buffer overflows it posts UART_FIFO_OVF or                  *)
(* UART_BUFFER_FULL and the byte is lost.  uart_event_task takes the       *)
(* events in order: for UART_DATA it reads event.size bytes and runs the   *)
(* byte loop on them; for an overflow event it calls uart_flush_input and  *)
(* xQueueReset and touches nothing else (uart_overflow).                   *)
(***************************************************************************)
MaxUartBytes == 4
MaxOverflows == 2

UartAlphabet == {CH_ESC, CH_LBRACKET, CH_A, CH_a}

OverflowEvents == {"UART_FIFO_OVF", "UART_BUFFER_FULL"}

UartEvent(type, size) == [type |-> type, size |-> size]

InitUart ==
    /\ prog \in {"esp32", "ssh"}
    /\ source = "uart"
    /\ tud_mounted \in BOOLEAN
    /\ InitDecoder
    /\ InitTasks

uartFrame == <<prog, source, tud_mounted, ssh_session, ssh_sessions, server,
               slotVars>>

UartReceive(c) ==
    /\ prog \in {"esp32", "ssh"} /\ Active("uart")
    /\ uart.received < MaxUartBytes
    /\ uart' = [uart EXCEPT !.rx = Append(@, c),
                            !.uart0_queue = Append(@, UartEvent("UART_DATA", 1)),
                            !.received = @ + 1]
    /\ UNCHANGED <<uartFrame, escape_seq_buf, escape_seq_idx, prev_char, ub, hist,
                   collect_run>>
    /\ UNCHANGED taskVars

UartOverflow(type) ==
    /\ prog \in {"esp32", "ssh"} /\ Active("uart")
    /\ uart.received < MaxUartBytes
    /\ Len(uart.flushed)
           + Cardinality({k \in 1 .. Len(uart.uart0_queue) :
                             uart.uart0_queue[k].type \in OverflowEvents})
       < MaxOverflows
    /\ uart' = [uart EXCEPT !.uart0_queue = Append(@, UartEvent(type, 0)),
                            !.received = @ + 1]
    /\ UNCHANGED <<uartFrame, escape_seq_buf, escape_seq_idx, prev_char, ub, hist,
                   collect_run>>
    /\ UNCHANGED taskVars

UartDataEvent ==
    /\ prog \in {"esp32", "ssh"} /\ Active("uart")
    /\ uart.uart0_queue # <<>>
    /\ Head(uart.uart0_queue).type = "UART_DATA"
    /\ LET c == Head(uart.rx)
       IN  ConsumeByte(LoopStep(escape_seq_idx, escape_seq_buf, prev_char, c,
                                tud_mounted), c, "uart")
    /\ uart' = [uart EXCEPT !.rx = Tail(@), !.uart0_queue = Tail(@)]

uart_overflow_reset(idx, buf, prev) ==
    [idx |-> 0, buf |-> ZeroBuf, prev_char |-> prev, frames |-> <<>>]

uart_overflow(idx, buf, prev) ==
    [idx |-> idx, buf |-> buf, prev_char |-> prev, frames |-> <<>>]

UartOverflowEvent ==
    /\ prog \in {"esp32", "ssh"} /\ Active("uart")
    /\ uart.uart0_queue # <<>>
    /\ Head(uart.uart0_queue).type \in OverflowEvents
    /\ LET r == uart_overflow(escape_seq_idx, escape_seq_buf, prev_char)
       IN  /\ escape_seq_idx' = r.idx
           /\ escape_seq_buf' = r.buf
           /\ prev_char' = r.prev_char
    /\ uart' = [uart EXCEPT !.rx = <<>>, !.uart0_queue = <<>>,
                            !.flushed = Append(@, Len(hist))]
    /\ UNCHANGED <<uartFrame, ub, hist, collect_run>>
    /\ UNCHANGED taskVars

NextUart ==
    \/ \E c \in UartAlphabet : UartReceive(c)
    \/ \E type \in OverflowEvents : UartOverflow(type)
    \/ UartDataEvent
    \/ UartOverflowEvent

SpecUart == InitUart /\ [][NextUart]_vars

(***************************************************************************)
(* C33: handling UART_FIFO_OVF or UART_BUFFER_FULL empties the receive     *)
(* buffer and the event queue, sends no frame and leaves escape_seq_buf,   *)
(* escape_seq_idx and prev_char alone: frames and decoder state are always *)
(* those of the byte loop fed the bytes that were consumed, so a sequence  *)
(* begun before the overflow goes on with the first byte consumed after    *)
(* it.                                                                     *)
(***************************************************************************)
C33_OverflowKeepsDecoder ==
    /\ FramesFrom(hist, "uart")
           = FramesAlone("uart", 0, ZeroBuf, 0, BytesFrom(hist, "uart"))
    /\ ~ub => <<escape_seq_idx, escape_seq_buf, prev_char>>
                  = StateAlone("uart", 0, ZeroBuf, 0, BytesFrom(hist, "uart"))
    /\ Len(uart.rx) = Cardinality({k \in 1 .. Len(uart.uart0_queue) :
                                      uart.uart0_queue[k].type = "UART_DATA"})

C33_Witness ==
    /\ prog = "esp32" /\ tud_mounted
    /\ uart.flushed = <<2>>
    /\ Len(hist) = 3
    /\ hist[1].byte = CH_ESC /\ hist[2].byte = CH_LBRACKET
    /\ hist[3].byte = CH_A /\ hist[3].frames = KeyEvent(0, HID_KEY_ARROW_UP)
    /\ uart.received = 4

(***************************************************************************)
(* ssh_server_task of ssh-keyboard.c, call by call.  A step is one library *)
(* call of the accept loop together with the handling of its failure,      *)
(* which runs without blocking: the frees, the assignments of NULL         *)
(* (reset_slot), and the continue or break.  ssh_sessions[i] is            *)
(* "accepting" from ssh_new until the session is established or given up.  *)
(***************************************************************************)
InitAccept ==
    /\ prog = "ssh"
    /\ source = "ssh"
    /\ tud_mounted \in BOOLEAN
    /\ InitDecoder
    /\ InitTasks

acceptFrame == <<prog, source, tud_mounted, escape_seq_buf, escape_seq_idx, prev_char,
                 ub, hist, collect_run, ssh_session, server, uart>>

SlotAt(pc) == prog = "ssh" /\ slot.pc = pc

reset_slot_skip(array, i) == array

reset_slot(array, i) == [array EXCEPT ![i] = NULL]

\* continue: the for loop goes on with the next slot.
ContinueLoop(call, sessions_freed, channels_freed) ==
    [slot EXCEPT !.i = @ + 1, !.pc = "scan", !.last_failed = call,
                 !.sessions_alive = @ - sessions_freed,
                 !.channels_alive = @ - channels_freed]

\* break: the for loop ends and the task sleeps.
BreakLoop == [slot EXCEPT !.pc = "vTaskDelay"]

ScanSlot(ok) ==
    /\ SlotAt("scan")
    /\ IF slot.i >= SSH_MAX_CLIENTS
       THEN /\ slot' = BreakLoop
            /\ UNCHANGED ssh_sessions
       ELSE IF ssh_sessions[slot.i] # NULL
       THEN /\ slot' = [slot EXCEPT !.i = @ + 1]
            /\ UNCHANGED ssh_sessions
       ELSE IF ok
       THEN /\ ssh_sessions' = [ssh_sessions EXCEPT ![slot.i] = "accepting"]
            /\ slot' = [slot EXCEPT !.pc = "ssh_bind_accept", !.sessions_alive = @ + 1]
       ELSE /\ slot' = ContinueLoop("ssh_new", 0, 0)
            /\ UNCHANGED ssh_sessions
    /\ UNCHANGED <<acceptFrame, ssh_channels>>
    /\ UNCHANGED taskVars

BindAccept(ok) ==
    /\ SlotAt("ssh_bind_accept")
    /\ IF ok
       THEN /\ slot' = [slot EXCEPT !.pc = "ssh_handle_key_exchange"]
            /\ UNCHANGED ssh_sessions
       ELSE /\ ssh_sessions' = reset_slot(ssh_sessions, slot.i)
            /\ slot' = [BreakLoop EXCEPT !.last_failed = "ssh_bind_accept",
                                         !.sessions_alive = @ - 1]
    /\ UNCHANGED <<acceptFrame, ssh_channels>>
    /\ UNCHANGED taskVars

HandleKeyExchange(ok) ==
    /\ SlotAt("ssh_handle_key_exchange")
    /\ IF ok
       THEN /\ slot' = [slot EXCEPT !.pc = "ssh_channel_new"]
            /\ UNCHANGED ssh_sessions
       ELSE /\ ssh_sessions' = reset_slot(ssh_sessions, slot.i)
            /\ slot' = ContinueLoop("ssh_handle_key_exchange", 1, 0)
    /\ UNCHANGED <<acceptFrame, ssh_channels>>
    /\ UNCHANGED taskVars

ChannelNew(ok) ==
    /\ SlotAt("ssh_channel_new")
    /\ IF ok
       THEN /\ ssh_channels' = [ssh_channels EXCEPT ![slot.i] = "channel"]
            /\ slot' = [slot EXCEPT !.pc = "ssh_channel_open_session",
                                    !.channels_alive = @ + 1]
            /\ UNCHANGED ssh_sessions
       ELSE /\ ssh_channels' = [ssh_channels EXCEPT ![slot.i] = NULL]
            /\ ssh_sessions' = reset_slot(ssh_sessions, slot.i)
            /\ slot' = ContinueLoop("ssh_channel_new", 1, 0)
    /\ UNCHANGED acceptFrame
    /\ UNCHANGED taskVars

ChannelOpenSession(ok) ==
    /\ SlotAt("ssh_channel_open_session")
    /\ IF ok
       THEN /\ slot' = [slot EXCEPT !.pc = "ssh_channel_request_shell"]
            /\ UNCHANGED <<ssh_sessions, ssh_channels>>
       ELSE /\ ssh_sessions' = reset_slot(ssh_sessions, slot.i)
            /\ ssh_channels' = reset_slot(ssh_channels, slot.i)
            /\ slot' = ContinueLoop("ssh_channel_open_session", 1, 1)
    /\ UNCHANGED acceptFrame
    /\ UNCHANGED taskVars

ChannelRequestShell(ok) ==
    /\ SlotAt("ssh_channel_request_shell")
    /\ IF ok
       THEN /\ ssh_sessions' = [ssh_sessions EXCEPT ![slot.i] = "open"]
            /\ slot' = BreakLoop
            /\ UNCHANGED ssh_channels
       ELSE /\ ssh_sessions' = reset_slot(ssh_sessions, slot.i)
            /\ ssh_channels' = reset_slot(ssh_channels, slot.i)
            /\ slot' = ContinueLoop("ssh_channel_request_shell", 1, 1)
    /\ UNCHANGED acceptFrame
    /\ UNCHANGED taskVars

LoopDelay ==
    /\ SlotAt("vTaskDelay")
    /\ slot' = [slot EXCEPT !.i = 0, !.pc = "scan"]
    /\ UNCHANGED <<acceptFrame, ssh_sessions, ssh_channels>>
    /\ UNCHANGED taskVars

NextAccept ==
    \/ \E ok \in BOOLEAN : ScanSlot(ok)
    \/ \E ok \in BOOLEAN : BindAccept(ok)
    \/ \E ok \in BOOLEAN : HandleKeyExchange(ok)
    \/ \E ok \in BOOLEAN : ChannelNew(ok)
    \/ \E ok \in BOOLEAN : ChannelOpenSession(ok)
    \/ \E ok \in BOOLEAN : ChannelRequestShell(ok)
    \/ LoopDelay
    \/ \E i \in SlotIndex : ClientDisconnect(i)

SpecAccept == InitAccept /\ [][NextAccept]_vars

Occupied(array) == {i \in SlotIndex : array[i] # NULL}

====
